---- MODULE Spec2Model ----
(***************************************************************************)
(* Sweetie Bot per-guild configuration: the BotConfig tree, the            *)
(* !setconfig / !getconfig commands (FixRequest, SetConfig, GetConfig)     *)
(* and the helpers they dispatch to.  Go strings are TLA+ strings and are  *)
(* taken apart character by character with Len / SubSeq.                   *)
(***************************************************************************)
EXTENDS Integers, Sequences, FiniteSets, TLC

(***************************************************************************)
(* strings package                                                         *)
(***************************************************************************)
Char(s, i) == SubSeq(s, i, i)

UpperLetters == "ABCDEFGHIJKLMNOPQRSTUVWXYZ"

LowerLetters == "abcdefghijklmnopqrstuvwxyz"

Digits == "0123456789"

\* position of the one-character string c in the alphabet abc, 0 when absent
IndexIn(c, abc) ==
  IF \E i \in 1..Len(abc) : Char(abc, i) = c
    THEN CHOOSE i \in 1..Len(abc) : Char(abc, i) = c
    ELSE 0

LowerChar(c) ==
  LET i == IndexIn(c, UpperLetters) IN IF i = 0 THEN c ELSE Char(LowerLetters, i)

RECURSIVE ToLower(_)
ToLower(s) == IF s = "" THEN "" ELSE LowerChar(Head(s)) \o ToLower(Tail(s))

\* index of the first occurrence of the one-character string c in s, 0 when absent
IndexByte(s, c) ==
  IF \E i \in 1..Len(s) : Char(s, i) = c
    THEN CHOOSE i \in 1..Len(s) : Char(s, i) = c /\ \A j \in 1..(i - 1) : Char(s, j) # c
    ELSE 0

\* strings.SplitN(s, sep, n) for a one-character sep and n >= 1
RECURSIVE SplitN(_, _, _)
SplitN(s, sep, n) ==
  LET i == IndexByte(s, sep) IN
  IF n <= 1 \/ i = 0 THEN <<s>>
  ELSE <<SubSeq(s, 1, i - 1)>> \o SplitN(SubSeq(s, i + 1, Len(s)), sep, n - 1)

\* strings.Join
RECURSIVE Join(_, _)
Join(a, sep) ==
  IF Len(a) = 0 THEN ""
  ELSE IF Len(a) = 1 THEN a[1]
  ELSE a[1] \o sep \o Join(Tail(a), sep)

HasPrefix(s, p) == Len(s) >= Len(p) /\ SubSeq(s, 1, Len(p)) = p

(***************************************************************************)
(* type BotConfig struct: the top-level fields in declaration order; a     *)
(* category is a field of Kind "struct" with its own fields in order.      *)
(***************************************************************************)
BotConfig ==
  <<
    [Name |-> "Version", Kind |-> "int", Fields |-> <<>>],
    [Name |-> "LastVersion", Kind |-> "int", Fields |-> <<>>],
    [Name |-> "SetupDone", Kind |-> "bool", Fields |-> <<>>],
    [Name |-> "Basic", Kind |-> "struct", Fields |-> <<
        [Name |-> "IgnoreInvalidCommands", Type |-> "bool"],
        [Name |-> "Importable", Type |-> "bool"],
        [Name |-> "ModRole", Type |-> "DiscordRole"],
        [Name |-> "ModChannel", Type |-> "DiscordChannel"],
        [Name |-> "FreeChannels", Type |-> "map[DiscordChannel]bool"],
        [Name |-> "BotChannel", Type |-> "DiscordChannel"],
        [Name |-> "Aliases", Type |-> "map[string]string"],
        [Name |-> "ListenToBots", Type |-> "bool"],
        [Name |-> "CommandPrefix", Type |-> "string"],
        [Name |-> "SilenceRole", Type |-> "DiscordRole"]>>],
    [Name |-> "Modules", Kind |-> "struct", Fields |-> <<
        [Name |-> "Channels", Type |-> "map[ModuleID]map[DiscordChannel]bool"],
        [Name |-> "Disabled", Type |-> "map[ModuleID]bool"],
        [Name |-> "CommandRoles", Type |-> "map[CommandID]map[DiscordRole]bool"],
        [Name |-> "CommandChannels", Type |-> "map[CommandID]map[DiscordChannel]bool"],
        [Name |-> "CommandLimits", Type |-> "map[CommandID]int64"],
        [Name |-> "CommandDisabled", Type |-> "map[CommandID]bool"],
        [Name |-> "CommandPerDuration", Type |-> "int"],
        [Name |-> "CommandMaxDuration", Type |-> "int64"]>>],
    [Name |-> "Spam", Kind |-> "struct", Fields |-> <<
        [Name |-> "ImagePressure", Type |-> "float32"],
        [Name |-> "PingPressure", Type |-> "float32"],
        [Name |-> "LengthPressure", Type |-> "float32"],
        [Name |-> "RepeatPressure", Type |-> "float32"],
        [Name |-> "LinePressure", Type |-> "float32"],
        [Name |-> "BasePressure", Type |-> "float32"],
        [Name |-> "PressureDecay", Type |-> "float32"],
        [Name |-> "MaxPressure", Type |-> "float32"],
        [Name |-> "MaxChannelPressure", Type |-> "map[DiscordChannel]float32"],
        [Name |-> "MaxRemoveLookback", Type |-> "int"],
        [Name |-> "IgnoreRole", Type |-> "DiscordRole"],
        [Name |-> "RaidTime", Type |-> "int64"],
        [Name |-> "RaidSize", Type |-> "int"],
        [Name |-> "AutoSilence", Type |-> "int"],
        [Name |-> "LockdownDuration", Type |-> "int"]>>],
    [Name |-> "Users", Kind |-> "struct", Fields |-> <<
        [Name |-> "TimezoneLocation", Type |-> "string"],
        [Name |-> "WelcomeChannel", Type |-> "DiscordChannel"],
        [Name |-> "WelcomeMessage", Type |-> "string"],
        [Name |-> "SilenceMessage", Type |-> "string"],
        [Name |-> "Roles", Type |-> "map[DiscordRole]bool"],
        [Name |-> "NotifyChannel", Type |-> "DiscordChannel"],
        [Name |-> "TrackUserLeft", Type |-> "bool"]>>],
    [Name |-> "Bucket", Kind |-> "struct", Fields |-> <<
        [Name |-> "MaxItems", Type |-> "int"],
        [Name |-> "MaxItemLength", Type |-> "int"],
        [Name |-> "MaxFightHP", Type |-> "int"],
        [Name |-> "MaxFightDamage", Type |-> "int"],
        [Name |-> "Items", Type |-> "map[string]bool"]>>],
    [Name |-> "Markov", Kind |-> "struct", Fields |-> <<
        [Name |-> "MaxPMlines", Type |-> "int"],
        [Name |-> "MaxLines", Type |-> "int"],
        [Name |-> "DefaultLines", Type |-> "int"],
        [Name |-> "UseMemberNames", Type |-> "bool"]>>],
    [Name |-> "Filter", Kind |-> "struct", Fields |-> <<
        [Name |-> "Filters", Type |-> "map[string]map[string]bool"],
        [Name |-> "Channels", Type |-> "map[string]map[DiscordChannel]bool"],
        [Name |-> "Responses", Type |-> "map[string]string"],
        [Name |-> "Templates", Type |-> "map[string]string"]>>],
    [Name |-> "Bored", Kind |-> "struct", Fields |-> <<
        [Name |-> "Cooldown", Type |-> "int64"],
        [Name |-> "Commands", Type |-> "map[string]bool"]>>],
    [Name |-> "Information", Kind |-> "struct", Fields |-> <<
        [Name |-> "Rules", Type |-> "map[int]string"],
        [Name |-> "HideNegativeRules", Type |-> "bool"]>>],
    [Name |-> "Log", Kind |-> "struct", Fields |-> <<
        [Name |-> "Cooldown", Type |-> "int64"],
        [Name |-> "Channel", Type |-> "DiscordChannel"]>>],
    [Name |-> "Witty", Kind |-> "struct", Fields |-> <<
        [Name |-> "Responses", Type |-> "map[string]string"],
        [Name |-> "Cooldown", Type |-> "int64"]>>],
    [Name |-> "Scheduler", Kind |-> "struct", Fields |-> <<
        [Name |-> "BirthdayRole", Type |-> "DiscordRole"]>>],
    [Name |-> "Miscellaneous", Kind |-> "struct", Fields |-> <<
        [Name |-> "MaxSearchResults", Type |-> "int"]>>],
    [Name |-> "Status", Kind |-> "struct", Fields |-> <<
        [Name |-> "Cooldown", Type |-> "int"],
        [Name |-> "Lines", Type |-> "map[string]bool"]>>],
    [Name |-> "Quote", Kind |-> "struct", Fields |-> <<
        [Name |-> "Quotes", Type |-> "map[DiscordUser][]string"]>>]
  >>

(***************************************************************************)
(* reflect: a Go type is its source text; Key / Elem take it apart.        *)
(***************************************************************************)
IsMapType(t) == HasPrefix(t, "map[")

IsSliceType(t) == HasPrefix(t, "[]")

\* reflect.Type.Key of a map type
TypeKey(t) == SubSeq(t, 5, IndexByte(t, "]") - 1)

\* reflect.Type.Elem of a map or slice type
TypeElem(t) == IF IsSliceType(t) THEN SubSeq(t, 3, Len(t)) ELSE SubSeq(t, IndexByte(t, "]") + 1, Len(t))

IntTypes == {"int", "int8", "int16", "int32", "int64"}

UintTypes == {"uint", "uint8", "uint16", "uint32", "uint64"}

FloatTypes == {"float32", "float64"}

StringTypes == {"string", "DiscordRole", "DiscordChannel", "DiscordUser", "ModuleID", "CommandID"}

\* a Go map: nil or not, and its entries; a Go slice: nil or not, and its elements
EmptyKV == [k \in {} |-> TRUE]

NilMap == [nil |-> TRUE, kv |-> EmptyKV]

MakeMap == [nil |-> FALSE, kv |-> EmptyKV]

NilSlice == [nil |-> TRUE, el |-> <<>>]

MakeSlice == [nil |-> FALSE, el |-> <<>>]

\* a float32 is held as the decimal that prints it: (-1)^neg * m * 10^e, m without trailing zeros
FloatOf(neg, m, e) == [neg |-> neg, m |-> m, e |-> e]

\* reflect.New(t).Elem(): the zero value of a type
Zero(t) ==
  IF IsMapType(t) THEN NilMap
  ELSE IF IsSliceType(t) THEN NilSlice
  ELSE IF t \in IntTypes \cup UintTypes THEN 0
  ELSE IF t \in FloatTypes THEN FloatOf(FALSE, 0, 0)
  ELSE IF t = "bool" THEN FALSE
  ELSE ""

\* m[k] = v on a non-nil map
MapPut(f, k, v) ==
  [nil |-> FALSE, kv |-> [x \in (DOMAIN f.kv) \cup {k} |-> IF x = k THEN v ELSE f.kv[x]]]

\* a delete that leaves the entry in place (faulty variant of MapDelete)
MapDeleteKeeps(f, k) == f

\* delete(m, k)
MapDelete(f, k) ==
  [nil |-> f.nil, kv |-> [x \in (DOMAIN f.kv) \ {k} |-> f.kv[x]]]

(***************************************************************************)
(* strconv / fmt                                                           *)
(***************************************************************************)
AllDigits(s) == Len(s) > 0 /\ \A i \in 1..Len(s) : IndexIn(Char(s, i), Digits) # 0

RECURSIVE DigitsValue(_)
DigitsValue(s) ==
  IF s = "" THEN 0
  ELSE 10 * DigitsValue(SubSeq(s, 1, Len(s) - 1)) + (IndexIn(Char(s, Len(s)), Digits) - 1)

RECURSIVE FormatNat(_)
FormatNat(n) ==
  IF n < 10 THEN Char(Digits, n + 1) ELSE FormatNat(n \div 10) \o Char(Digits, (n % 10) + 1)

\* fmt.Sprint of an integer
FormatInt(n) == IF n < 0 THEN "-" \o FormatNat(-n) ELSE FormatNat(n)

SyntaxError(fn, value) == "strconv." \o fn \o ": parsing \"" \o value \o "\": invalid syntax"

RangeError(fn, value) == "strconv." \o fn \o ": parsing \"" \o value \o "\": value out of range"

HasSign(s) == Len(s) > 0 /\ Char(s, 1) \in {"+", "-"}

Unsigned(s) == IF HasSign(s) THEN Tail(s) ELSE s

\* an int64 has at most 19 decimal digits, a uint64 at most 20; the values
\* the model parses stay far below that
\* strconv.ParseInt(value, 10, 64)
ParseInt(value) ==
  LET Read(neg, body) ==
        IF ~AllDigits(body) THEN [err |-> TRUE, msg |-> SyntaxError("ParseInt", value), val |-> 0]
        ELSE IF Len(body) > 19
          THEN [err |-> TRUE, msg |-> RangeError("ParseInt", value), val |-> 0]
        ELSE [err |-> FALSE, msg |-> "", val |-> IF neg THEN -DigitsValue(body) ELSE DigitsValue(body)]
  IN Read(HasSign(value) /\ Char(value, 1) = "-", Unsigned(value))

\* strconv.ParseUint(value, 10, 64): no sign is accepted
ParseUint(value) ==
  IF ~AllDigits(value) THEN [err |-> TRUE, msg |-> SyntaxError("ParseUint", value), val |-> 0]
  ELSE IF Len(value) > 20
    THEN [err |-> TRUE, msg |-> RangeError("ParseUint", value), val |-> 0]
  ELSE [err |-> FALSE, msg |-> "", val |-> DigitsValue(value)]

\* drop the trailing zeros of a mantissa into the exponent
RECURSIVE Normalize(_, _, _)
Normalize(neg, m, e) ==
  IF m = 0 THEN FloatOf(neg, 0, 0)
  ELSE IF m % 10 = 0 THEN Normalize(neg, m \div 10, e + 1)
  ELSE FloatOf(neg, m, e)

\* the reading strconv gives a decimal floating-point text
\* [sign] digits [. digits] [e [sign] digits]: whether it is one, and its value.
\* (The names inf and nan and hexadecimal texts, which strconv also reads,
\* are not among the texts parsed here.)
FloatSyntax(value) ==
  LET neg == HasSign(value) /\ Char(value, 1) = "-"
      \* the integer part ip, the fraction fp, the exponent's sign and its digits
      Read(ip, fp, eneg, edigits) ==
        IF /\ Len(ip) + Len(fp) > 0
           /\ ip = "" \/ AllDigits(ip)
           /\ fp = "" \/ AllDigits(fp)
           /\ AllDigits(edigits)
          THEN [ok |-> TRUE,
                val |-> Normalize(neg, DigitsValue(ip \o fp),
                                  IF eneg THEN -Len(fp) - DigitsValue(edigits)
                                          ELSE -Len(fp) + DigitsValue(edigits))]
          ELSE [ok |-> FALSE, val |-> FloatOf(FALSE, 0, 0)]
      Point(mant, expt, dot) ==
        Read(IF dot = 0 THEN mant ELSE SubSeq(mant, 1, dot - 1),
             IF dot = 0 THEN "" ELSE SubSeq(mant, dot + 1, Len(mant)),
             HasSign(expt) /\ Char(expt, 1) = "-", Unsigned(expt))
      Mantissa(mant, expt) == Point(mant, expt, IndexByte(mant, "."))
      Exponent(body, epos) ==
        Mantissa(IF epos = 0 THEN body ELSE SubSeq(body, 1, epos - 1),
                 IF epos = 0 THEN "0" ELSE SubSeq(body, epos + 1, Len(body)))
      Body(body) == Exponent(body, IndexByte(ToLower(body), "e"))
  IN Body(Unsigned(value))

\* a parse whose error is dropped, the value left at zero (faulty variant of ParseFloat)
ParseFloatDropsError(value) == [err |-> FALSE, msg |-> "", val |-> FloatSyntax(value).val]

\* strconv.ParseFloat(value, 32); texts of up to six digits are stored by
\* float32 without loss
ParseFloat(value) ==
  LET Result(s) ==
        IF ~s.ok
          THEN [err |-> TRUE, msg |-> SyntaxError("ParseFloat", value), val |-> FloatOf(FALSE, 0, 0)]
          ELSE [err |-> FALSE, msg |-> "", val |-> s.val]
  IN Result(FloatSyntax(value))

RECURSIVE Zeros(_)
Zeros(n) == IF n <= 0 THEN "" ELSE "0" \o Zeros(n - 1)

\* the %e format whatever the exponent (faulty variant of FormatFloat)
FormatFloatExponent(x) ==
  LET D    == FormatNat(x.m)
      exp  == Len(D) + x.e - 1
      aexp == IF exp < 0 THEN -exp ELSE exp
  IN (IF x.neg THEN "-" ELSE "")
     \o Char(D, 1) \o (IF Len(D) > 1 THEN "." \o SubSeq(D, 2, Len(D)) ELSE "")
     \o "e" \o (IF exp < 0 THEN "-" ELSE "+") \o (IF aexp < 10 THEN "0" ELSE "") \o FormatNat(aexp)

\* fmt.Sprint of a float32: strconv 'g' format with the shortest digits,
\* %e when the decimal exponent is below -4 or at least 6
FormatFloat(x) ==
  LET D    == FormatNat(x.m)
      nd   == Len(D)
      dp   == nd + x.e
      exp  == dp - 1
      sign == IF x.neg THEN "-" ELSE ""
      fixed == IF dp <= 0 THEN "0." \o Zeros(-dp) \o D
               ELSE IF dp >= nd THEN D \o Zeros(dp - nd)
               ELSE SubSeq(D, 1, dp) \o "." \o SubSeq(D, dp + 1, nd)
      aexp == IF exp < 0 THEN -exp ELSE exp
      sci  == Char(D, 1) \o (IF nd > 1 THEN "." \o SubSeq(D, 2, nd) ELSE "")
              \o "e" \o (IF exp < 0 THEN "-" ELSE "+")
              \o (IF aexp < 10 THEN "0" ELSE "") \o FormatNat(aexp)
  IN IF x.m = 0 THEN sign \o "0"
     ELSE IF exp < -4 \/ exp >= 6 THEN sign \o sci
     ELSE sign \o fixed

\* fmt.Sprint(v) for a value of scalar type t
Sprint(t, v) ==
  IF t \in IntTypes \cup UintTypes THEN FormatInt(v)
  ELSE IF t \in FloatTypes THEN FormatFloat(v)
  ELSE IF t = "bool" THEN (IF v THEN "true" ELSE "false")
  ELSE v

(***************************************************************************)
(* The guild the configuration belongs to: its roles, channels and         *)
(* members (discordgo state), its modules and its commands.                *)
(***************************************************************************)
GuildRoles == {[ID |-> "101", Name |-> "Mods"], [ID |-> "102", Name |-> "Silence"]}

GuildChannels == {[ID |-> "201", Name |-> "general"], [ID |-> "202", Name |-> "bot"]}

GuildMembers == {[ID |-> "301", Nick |-> "", Username |-> "cloud"], [ID |-> "302", Nick |-> "Twi", Username |-> "twilight"]}

\* Name() of the guild's modules
ModuleNames == {"Bucket", "Spam"}

\* keys of info.commands
CommandNames == {"wipe", "getaudit"}

\* resolve a mention, a raw id or a name against a directory
ParseRef(value, dir, open, what) ==
  LET hits == {d \in dir : value = d.ID \/ value = open \o d.ID \o ">" \/ value = d.Name}
  IN IF hits = {} THEN [err |-> TRUE, msg |-> "Could not find any " \o what \o " matching " \o value \o "!", val |-> ""]
     ELSE [err |-> FALSE, msg |-> "", val |-> (CHOOSE d \in hits : TRUE).ID]

ParseRole(value) == ParseRef(value, GuildRoles, "<@&", "role")

ParseChannel(value) == ParseRef(value, GuildChannels, "<#", "channel")

ParseUser(value) ==
  ParseRef(value, {[ID |-> m.ID, Name |-> m.Username] : m \in GuildMembers}, "<@", "user")

(***************************************************************************)
(* The configuration value: one entry per top-level scalar field and per   *)
(* option, keyed by the Go spelling of its path ("Spam.MaxPressure").     *)
(***************************************************************************)
Categories == {i \in DOMAIN BotConfig : BotConfig[i].Kind = "struct"}

OptionPath(i, j) == BotConfig[i].Name \o "." \o BotConfig[i].Fields[j].Name

Options == {<<i, j>> \in (DOMAIN BotConfig) \X (1..15) : j \in DOMAIN BotConfig[i].Fields}

OptionPaths == {OptionPath(o[1], o[2]) : o \in Options}

TopFields == {BotConfig[i].Name : i \in (DOMAIN BotConfig) \ Categories}

AllPaths == TopFields \cup OptionPaths

PathTypes ==
  [p \in AllPaths |->
     IF p \in TopFields THEN BotConfig[CHOOSE i \in DOMAIN BotConfig : BotConfig[i].Name = p].Kind
     ELSE LET o == CHOOSE o \in Options : OptionPath(o[1], o[2]) = p
          IN BotConfig[o[1]].Fields[o[2]].Type]

TypeOf(p) == PathTypes[p]

\* strings.ToLower of every field name, as the lookups compare them
LowerNames ==
  [i \in DOMAIN BotConfig |->
     [Name |-> ToLower(BotConfig[i].Name),
      Fields |-> [j \in DOMAIN BotConfig[i].Fields |-> ToLower(BotConfig[i].Fields[j].Name)]]]

ZeroConfig == [p \in AllPaths |-> Zero(TypeOf(p))]

ConfigVersion == 21

\* BotVersion.Integer(), fixed by the build
BotVersionInteger == 905

\* a set (map[K]bool) holding the given keys
SetOf(keys) == [nil |-> FALSE, kv |-> [k \in keys |-> TRUE]]

DefaultConfig ==
  [ZeroConfig EXCEPT
     !["Version"] = ConfigVersion,
     !["LastVersion"] = BotVersionInteger,
     !["SetupDone"] = FALSE,
     !["Basic.IgnoreInvalidCommands"] = FALSE,
     !["Basic.Importable"] = FALSE,
     !["Basic.CommandPrefix"] = "!",
     !["Modules.CommandPerDuration"] = 3,
     !["Modules.CommandMaxDuration"] = 15,
     !["Spam.MaxPressure"] = FloatOf(FALSE, 6, 1),
     !["Spam.BasePressure"] = FloatOf(FALSE, 1, 1),
     !["Spam.ImagePressure"] = FloatOf(FALSE, 8333333, -6),
     !["Spam.PingPressure"] = FloatOf(FALSE, 25, -1),
     !["Spam.LengthPressure"] = FloatOf(FALSE, 625, -5),
     !["Spam.RepeatPressure"] = FloatOf(FALSE, 1, 1),
     !["Spam.LinePressure"] = FloatOf(FALSE, 71428573, -8),
     !["Spam.PressureDecay"] = FloatOf(FALSE, 25, -1),
     !["Spam.MaxRemoveLookback"] = 4,
     !["Spam.RaidTime"] = 240,
     !["Spam.RaidSize"] = 4,
     !["Spam.AutoSilence"] = 1,
     !["Spam.LockdownDuration"] = 120,
     !["Bucket.MaxItems"] = 10,
     !["Bucket.MaxItemLength"] = 100,
     !["Bucket.MaxFightHP"] = 300,
     !["Bucket.MaxFightDamage"] = 60,
     !["Markov.MaxPMlines"] = 5,
     !["Markov.MaxLines"] = 30,
     !["Markov.DefaultLines"] = 5,
     !["Markov.UseMemberNames"] = TRUE,
     !["Bored.Cooldown"] = 500,
     !["Bored.Commands"] = SetOf({"!quote", "!drop"}),
     !["Log.Cooldown"] = 4,
     !["Witty.Cooldown"] = 180,
     !["Miscellaneous.MaxSearchResults"] = 10,
     !["Status.Cooldown"] = 3600]

\* the root maps FillConfig looks at
FillConfigFields == {p \in OptionPaths : IsMapType(TypeOf(p))}

\* FillConfig without the test of Users.Roles (faulty variant of FillConfig)
FillConfigButRoles(cfg) ==
  [p \in AllPaths |->
     IF p \in FillConfigFields \ {"Users.Roles"} /\ DOMAIN cfg[p].kv = {} THEN MakeMap ELSE cfg[p]]

\* FillConfig: every root map of length 0 becomes a fresh empty map
FillConfig(cfg) ==
  [p \in AllPaths |->
     IF p \in FillConfigFields /\ DOMAIN cfg[p].kv = {} THEN MakeMap ELSE cfg[p]]

(***************************************************************************)
(* FixRequest.  Message texts are given without the Markdown code fence    *)
(* the bot wraps them in.                                                  *)
(***************************************************************************)
\* stops at the first category that has the field (faulty variant of MatchingCategories)
MatchingCategoriesFirst(a, i) ==
  LET hits == {c \in i..Len(BotConfig) :
                 /\ BotConfig[c].Kind = "struct"
                 /\ \E j \in DOMAIN BotConfig[c].Fields : LowerNames[c].Fields[j] = a}
  IN IF hits = {} THEN <<>> ELSE <<BotConfig[CHOOSE c \in hits : \A d \in hits : c <= d].Name>>

\* names of the categories that have a field called a, in declaration order
RECURSIVE MatchingCategories(_, _)
MatchingCategories(a, i) ==
  IF i > Len(BotConfig) THEN <<>>
  ELSE (IF /\ BotConfig[i].Kind = "struct"
           /\ \E j \in DOMAIN BotConfig[i].Fields : LowerNames[i].Fields[j] = a
          THEN <<BotConfig[i].Name>> ELSE <<>>)
       \o MatchingCategories(a, i + 1)

\* returns a lone match without qualifying it (faulty variant of FixRequest)
\* answers a name it cannot place with an error (faulty variant of FixRequest)
FixRequestRejectsUnknown(arg) ==
  IF \E i \in DOMAIN BotConfig : LowerNames[i].Name = ToLower(arg)
    THEN [path |-> arg, err |-> FALSE, msg |-> ""]
    ELSE [path |-> "", err |-> TRUE, msg |-> "Could not find " \o arg]

FixRequestUnqualified(arg) == [path |-> arg, err |-> FALSE, msg |-> ""]

FixRequest(arg) ==
  LET args == SplitN(ToLower(arg), ".", 3)
      list == MatchingCategories(args[1], 1)
  IN IF \E i \in DOMAIN BotConfig : LowerNames[i].Name = args[1]
       THEN [path |-> arg, err |-> FALSE, msg |-> ""]
     ELSE IF Len(list) < 1 THEN [path |-> arg, err |-> FALSE, msg |-> ""]
     ELSE IF Len(list) = 1 THEN [path |-> ToLower(list[1]) \o "." \o arg, err |-> FALSE, msg |-> ""]
     ELSE [path |-> "", err |-> TRUE,
           msg |-> "Could be any of the following:\n"
                   \o Join([k \in DOMAIN list |-> list[k] \o "." \o args[1]], "\n")]

(***************************************************************************)
(* setConfigValue and the collection setters.  A setter returns the new    *)
(* value of the field it was handed (f), the message and the success flag. *)
(***************************************************************************)
setConfigValue(t, f, value) ==
  IF t = "string" THEN [err |-> FALSE, msg |-> "", val |-> value]
  ELSE IF t = "DiscordRole" THEN ParseRole(value)
  ELSE IF t = "DiscordChannel" THEN ParseChannel(value)
  ELSE IF t = "DiscordUser" THEN ParseUser(value)
  ELSE IF t = "ModuleID" THEN
    (IF \E v \in ModuleNames : ToLower(value) = ToLower(v)
       THEN [err |-> FALSE, msg |-> "", val |-> ToLower(value)]
       ELSE [err |-> TRUE, msg |-> ToLower(value) \o " is not a module name!", val |-> f])
  ELSE IF t = "CommandID" THEN
    (IF ToLower(value) \in CommandNames
       THEN [err |-> FALSE, msg |-> "", val |-> ToLower(value)]
       ELSE [err |-> TRUE, msg |-> ToLower(value) \o " is not a command name!", val |-> f])
  ELSE IF t \in IntTypes THEN ParseInt(value)
  ELSE IF t \in UintTypes THEN ParseUint(value)
  ELSE IF t \in FloatTypes THEN ParseFloat(value)
  ELSE [err |-> FALSE, msg |-> "", val |-> f]

deleteFromMapReflect(t, f, k) ==
  [f |-> MapDelete(f, k), msg |-> "Deleted " \o Sprint(TypeKey(t), k), ok |-> FALSE]

setConfigKeyValue(t, f, key, value) ==
  LET f1 == IF f.nil THEN MakeMap ELSE f
      \* k is the parsed key, v the parsed value
      Put(k, v) ==
        IF k.err THEN [f |-> f, msg |-> "Key error: " \o k.msg, ok |-> FALSE]
        ELSE IF Len(value[1]) = 0
          THEN [f |-> MapDelete(f1, k.val), msg |-> "Deleted " \o value[1], ok |-> FALSE]
        ELSE IF v.err THEN [f |-> f1, msg |-> "Value error: " \o v.msg, ok |-> FALSE]
        ELSE [f |-> MapPut(f1, k.val, v.val),
              msg |-> Sprint(TypeKey(t), k.val) \o ": " \o Sprint(TypeElem(t), v.val), ok |-> TRUE]
  IN IF Len(value) = 0 THEN [f |-> f, msg |-> "No value parameter given", ok |-> FALSE]
     ELSE Put(setConfigValue(TypeKey(t), Zero(TypeKey(t)), key),
              setConfigValue(TypeElem(t), Zero(TypeElem(t)), value[1]))

\* index of the first of values that setConfigValue rejects for type t, 0 when none
FirstBad(t, values) ==
  LET bad == {i \in DOMAIN values : setConfigValue(t, Zero(t), values[i]).err}
  IN IF bad = {} THEN 0 ELSE CHOOSE i \in bad : \A j \in bad : i <= j

\* the loop without the guard on an empty first value (faulty variant of Stored)
StoredUnguarded(t, values) ==
  LET Upto(bad) ==
        [i \in 1..(IF bad = 0 THEN Len(values) ELSE bad - 1) |-> setConfigValue(t, Zero(t), values[i]).val]
  IN Upto(FirstBad(t, values))

\* the loop starting at the second value (faulty variant of Stored)
StoredSkipsFirst(t, values) ==
  [i \in 1..(Len(values) - 1) |-> setConfigValue(t, Zero(t), values[i + 1]).val]

\* the values the loop has stored when it stops: all of them, or those before the first bad one
Stored(t, values) ==
  LET Upto(bad) ==
        [i \in 1..(IF bad = 0 THEN Len(values) ELSE bad - 1) |-> setConfigValue(t, Zero(t), values[i]).val]
  IN IF Len(values[1]) > 0 THEN Upto(FirstBad(t, values)) ELSE <<>>

Range(s) == {s[i] : i \in DOMAIN s}

setConfigList(t, f, values) ==
  LET \* e is the element type, stored the values the loop has stored, bad the
      \* index of the value it stopped at (0 when none) and sep the separator
      \* of the echo
      Loop(e, stored, bad, sep) ==
        LET f1 == IF IsSliceType(t) THEN [nil |-> FALSE, el |-> stored] ELSE SetOf(Range(stored))
        IN IF bad # 0
             THEN [f |-> f1, msg |-> "Value error: " \o setConfigValue(e, Zero(e), values[bad]).msg, ok |-> FALSE]
             ELSE [f |-> f1, msg |-> "[" \o Join([i \in DOMAIN stored |-> Sprint(e, stored[i])], sep) \o "]", ok |-> TRUE]
  IN IF IsSliceType(t)
       THEN Loop(TypeElem(t), Stored(TypeElem(t), values),
                 IF Len(values[1]) > 0 THEN FirstBad(TypeElem(t), values) ELSE 0, " ")
     ELSE IF IsMapType(t) THEN
       (IF TypeElem(t) # "bool" THEN [f |-> f, msg |-> "Map sent into list function!", ok |-> FALSE]
        ELSE Loop(TypeKey(t), Stored(TypeKey(t), values),
                  IF Len(values[1]) > 0 THEN FirstBad(TypeKey(t), values) ELSE 0, ", "))
     ELSE [f |-> f, msg |-> "Unknown list type!", ok |-> FALSE]

setConfigMapList(t, f, key, values) ==
  LET f1 == IF f.nil THEN MakeMap ELSE f
      \* k is the parsed key, r what setConfigList returns for the values
      Put(k, r) ==
        IF k.err THEN [f |-> f1, msg |-> "Key error: " \o k.msg, ok |-> FALSE]
        ELSE IF Len(values) = 0 THEN deleteFromMapReflect(t, f1, k.val)
        ELSE IF ~r.ok THEN [f |-> f1, msg |-> r.msg, ok |-> FALSE]
        ELSE [f |-> MapPut(f1, k.val, r.f), msg |-> Sprint(TypeKey(t), k.val) \o ": " \o r.msg, ok |-> TRUE]
  IN IF Len(key) = 0 THEN [f |-> f1, msg |-> "No key specified", ok |-> FALSE]
     ELSE Put(setConfigValue(TypeKey(t), Zero(TypeKey(t)), key),
              setConfigList(TypeElem(t), Zero(TypeElem(t)), values))

(***************************************************************************)
(* BotConfig.SetConfig                                                     *)
(***************************************************************************)
SetValueTypes ==
  {"string", "int", "int8", "int16", "int32", "int64", "uint", "uint8", "uint16", "uint32",
   "float32", "float64", "uint64", "DiscordChannel", "DiscordRole", "DiscordUser"}

SetListTypes ==
  {"map[DiscordChannel]bool", "map[string]bool", "map[DiscordRole]bool", "map[CommandID]bool",
   "map[ModuleID]bool"}

SetKeyValueTypes ==
  {"map[string]string", "map[CommandID]int64", "map[DiscordChannel]float32", "map[int]string"}

SetMapListTypes ==
  {"map[string]map[DiscordChannel]bool", "map[CommandID]map[DiscordRole]bool",
   "map[string]map[string]bool", "map[DiscordUser][]string",
   "map[CommandID]map[DiscordChannel]bool", "map[ModuleID]map[DiscordChannel]bool"}

\* the option Category.Option named by two lower-cased segments, "" when there is none
FindOption(cat, opt) ==
  LET hits == {o \in Options : LowerNames[o[1]].Name = cat /\ LowerNames[o[1]].Fields[o[2]] = opt}
  IN IF hits = {} THEN "" ELSE LET o == CHOOSE o \in hits : TRUE IN OptionPath(o[1], o[2])

\* compares the value as it was typed (faulty variant of SetBool)
SetBoolExact(cfg, p, name, value) ==
  IF value = "true" THEN [cfg |-> [cfg EXCEPT ![p] = TRUE], msg |-> "true", ok |-> TRUE]
  ELSE IF value = "false" THEN [cfg |-> [cfg EXCEPT ![p] = FALSE], msg |-> "false", ok |-> TRUE]
  ELSE [cfg |-> cfg, msg |-> name \o " must be set to either 'true' or 'false'", ok |-> FALSE]

\* case bool of SetConfig's type switch, with the echo fmt.Sprint gives
SetBool(cfg, p, name, value) ==
  IF ToLower(value) = "true" THEN [cfg |-> [cfg EXCEPT ![p] = TRUE], msg |-> "true", ok |-> TRUE]
  ELSE IF ToLower(value) = "false" THEN [cfg |-> [cfg EXCEPT ![p] = FALSE], msg |-> "false", ok |-> TRUE]
  ELSE [cfg |-> cfg, msg |-> name \o " must be set to either 'true' or 'false'", ok |-> FALSE]

\* assigns a value to the option of that name in every category (faulty variant of SetOption)
SetOptionByName(cfg, p, name, value, extra) ==
  LET t == TypeOf(p)
      f == cfg[p]
      Named == {q \in OptionPaths : TypeOf(q) = t /\ SplitN(q, ".", 2)[2] = SplitN(p, ".", 2)[2]}
      Value(r) ==
        IF r.err THEN [cfg |-> cfg, msg |-> "Error: " \o r.msg, ok |-> FALSE]
        ELSE [cfg |-> [q \in AllPaths |-> IF q \in Named THEN r.val ELSE cfg[q]],
              msg |-> Sprint(t, r.val), ok |-> TRUE]
      Collection(r) == [cfg |-> [cfg EXCEPT ![p] = r.f], msg |-> r.msg, ok |-> r.ok]
  IN IF t \in SetValueTypes THEN Value(setConfigValue(t, f, value))
     ELSE IF t \in SetListTypes THEN Collection(setConfigList(t, f, <<value>> \o extra))
     ELSE IF t = "bool" THEN SetBool(cfg, p, name, value)
     ELSE IF t \in SetKeyValueTypes THEN Collection(setConfigKeyValue(t, f, ToLower(value), extra))
     ELSE IF t \in SetMapListTypes THEN Collection(setConfigMapList(t, f, ToLower(value), extra))
     ELSE [cfg |-> cfg, msg |-> "That config option has an unknown type!", ok |-> FALSE]

\* the assignment SetConfig makes to the option at path p
SetOption(cfg, p, name, value, extra) ==
  LET t == TypeOf(p)
      f == cfg[p]
      \* r is what setConfigValue returns
      Value(r) ==
        IF r.err THEN [cfg |-> cfg, msg |-> "Error: " \o r.msg, ok |-> FALSE]
        ELSE [cfg |-> [cfg EXCEPT ![p] = r.val], msg |-> Sprint(t, r.val), ok |-> TRUE]
      \* r is what a collection setter returns
      Collection(r) == [cfg |-> [cfg EXCEPT ![p] = r.f], msg |-> r.msg, ok |-> r.ok]
  IN IF t \in SetValueTypes THEN Value(setConfigValue(t, f, value))
     ELSE IF t \in SetListTypes THEN Collection(setConfigList(t, f, <<value>> \o extra))
     ELSE IF t = "bool" THEN SetBool(cfg, p, name, value)
     ELSE IF t \in SetKeyValueTypes THEN Collection(setConfigKeyValue(t, f, ToLower(value), extra))
     ELSE IF t \in SetMapListTypes THEN Collection(setConfigMapList(t, f, ToLower(value), extra))
     ELSE [cfg |-> cfg, msg |-> "That config option has an unknown type!", ok |-> FALSE]

\* looks for the option without the check on the number of segments, a
\* missing option segment read as empty (faulty variant of SetConfig)
SetConfigUnchecked(cfg, name, value, extra) ==
  LET names == SplitN(ToLower(name), ".", 3)
      p     == IF Len(names) < 2 THEN "" ELSE FindOption(names[1], names[2])
  IN IF p = ""
       THEN [cfg |-> cfg, msg |-> "Could not find configuration parameter " \o name \o "!", ok |-> FALSE]
       ELSE SetOption(cfg, p, name, value, extra)

\* assigns a top-level field named by the first segment (faulty variant of SetConfig)
SetConfigSetsFields(cfg, name, value, extra) ==
  LET names == SplitN(ToLower(name), ".", 3)
      tops  == {i \in DOMAIN BotConfig : LowerNames[i].Name = names[1] /\ BotConfig[i].Kind # "struct"}
      top   == CHOOSE i \in tops : TRUE
  IN IF tops = {} THEN SetConfigUnchecked(cfg, name, value, extra)
     ELSE IF BotConfig[top].Kind = "bool" THEN SetBool(cfg, BotConfig[top].Name, name, value)
     ELSE IF ParseInt(value).err THEN [cfg |-> cfg, msg |-> "Error: " \o ParseInt(value).msg, ok |-> FALSE]
     ELSE [cfg |-> [cfg EXCEPT ![BotConfig[top].Name] = ParseInt(value).val], msg |-> value, ok |-> TRUE]

SetConfig(cfg, name, value, extra) ==
  LET names == SplitN(ToLower(name), ".", 3)
      tops  == {i \in DOMAIN BotConfig : LowerNames[i].Name = names[1]}
      top   == CHOOSE i \in tops : TRUE
      p     == FindOption(names[1], names[2])
      none  == [cfg |-> cfg, msg |-> "Could not find configuration parameter " \o name \o "!", ok |-> FALSE]
  IN IF tops = {} THEN none
     ELSE IF Len(names) < 2
       THEN [cfg |-> cfg,
             msg |-> "Can't set a configuration category! Use \"Category.Option\" to set a specific option.",
             ok |-> FALSE]
     ELSE IF BotConfig[top].Kind # "struct"
       THEN [cfg |-> cfg, msg |-> "Not a configuration category!", ok |-> FALSE]
     ELSE IF p = "" THEN none
     ELSE SetOption(cfg, p, name, value, extra)

(***************************************************************************)
(* getConfigValue, getConfigList, getConfigMapList, BotConfig.GetConfig.   *)
(* Go leaves the iteration order of a map open, so a getter that ranges    *)
(* over a map yields the set of line sequences it can produce.             *)
(***************************************************************************)
getConfigValue(t, v) ==
  IF t = "DiscordRole" /\ \E r \in GuildRoles : r.ID = v
    THEN "@" \o (CHOOSE r \in GuildRoles : r.ID = v).Name
  ELSE IF t = "DiscordChannel" /\ \E c \in GuildChannels : c.ID = v
    THEN "#" \o (CHOOSE c \in GuildChannels : c.ID = v).Name
  ELSE IF t = "DiscordUser" /\ \E m \in GuildMembers : m.ID = v
    THEN LET m == CHOOSE m \in GuildMembers : m.ID = v
         IN IF Len(m.Nick) > 0 THEN m.Nick ELSE m.Username
  ELSE Sprint(t, v)

\* f.MapKeys(): the keys in any order
MapKeys(f) ==
  LET n == Cardinality(DOMAIN f.kv)
  IN {s \in [1..n -> DOMAIN f.kv] : \A i, j \in 1..n : i # j => s[i] # s[j]}

\* v.Len() of a map or a slice
LenOf(t, v) == IF IsSliceType(t) THEN Len(v.el) ELSE Cardinality(DOMAIN v.kv)

getConfigList(t, f) ==
  IF IsSliceType(t) THEN {[i \in DOMAIN f.el |-> getConfigValue(TypeElem(t), f.el[i])]}
  ELSE IF IsMapType(t) THEN
    (IF TypeElem(t) = "bool"
       THEN {[i \in DOMAIN keys |-> getConfigValue(TypeKey(t), keys[i])] : keys \in MapKeys(f)}
       ELSE {[i \in DOMAIN keys |->
                "\"" \o getConfigValue(TypeKey(t), keys[i]) \o "\": "
                     \o getConfigValue(TypeElem(t), f.kv[keys[i]])] : keys \in MapKeys(f)})
  ELSE {<<>>}

getConfigMapList(t, f) ==
  {[i \in DOMAIN keys |->
      LET v == f.kv[keys[i]]
          k == getConfigValue(TypeKey(t), keys[i])
      IN IF LenOf(TypeElem(t), v) = 1
           THEN "\"" \o k \o "\": " \o Join(CHOOSE s \in getConfigList(TypeElem(t), v) : TRUE, ", ")
           ELSE "\"" \o k \o "\": [" \o FormatInt(LenOf(TypeElem(t), v)) \o " items]"]
   : keys \in MapKeys(f)}

GetValueTypes ==
  {"string", "int", "int8", "int16", "int32", "int64", "uint", "uint8", "uint16", "uint32",
   "float32", "float64", "uint64", "DiscordChannel", "DiscordRole", "DiscordUser", "ModuleID",
   "CommandID", "bool"}

GetListTypes ==
  {"map[DiscordChannel]bool", "map[string]bool", "map[DiscordRole]bool", "map[string]string",
   "map[CommandID]int64", "map[DiscordChannel]float32", "map[int]string", "map[CommandID]bool",
   "map[ModuleID]bool"}

GetMapListTypes == SetMapListTypes

JsonChar(c) ==
  IF c = "\"" THEN "\\\""
  ELSE IF c = "\\" THEN "\\\\"
  ELSE IF c = "<" THEN "\\u003c"
  ELSE IF c = ">" THEN "\\u003e"
  ELSE IF c = "&" THEN "\\u0026"
  ELSE IF c = "\n" THEN "\\n"
  ELSE c

RECURSIVE JsonEscape(_)
JsonEscape(s) == IF s = "" THEN "" ELSE JsonChar(Head(s)) \o JsonEscape(Tail(s))

\* json.Marshal of the one type GetConfig hands it, []string
JsonMarshal(t, v) ==
  IF v.nil THEN "null"
  ELSE "[" \o Join([i \in DOMAIN v.el |-> "\"" \o JsonEscape(v.el[i]) \o "\""], ",") \o "]"

GetConfig(t, f) ==
  IF t \in GetValueTypes THEN {<<getConfigValue(t, f)>>}
  ELSE IF t \in GetListTypes THEN getConfigList(t, f)
  ELSE IF t \in GetMapListTypes THEN getConfigMapList(t, f)
  ELSE {<<JsonMarshal(t, f)>>}

(***************************************************************************)
(* getConfigCommand: GetSubStruct and Process                              *)
(***************************************************************************)
\* strconv.Atoi with its error dropped
Atoi(s) == LET Value(r) == IF r.err THEN 0 ELSE r.val IN Value(ParseInt(s))

GetKeyTypes ==
  {"map[string]bool", "map[string]string", "map[string]int64",
   "map[string]map[DiscordChannel]bool", "map[string]map[DiscordRole]bool",
   "map[string]map[string]bool",
   "map[DiscordChannel]bool", "map[DiscordChannel]float32",
   "map[DiscordRole]bool", "map[DiscordUser][]string"}

\* looks the key up lower-cased, as SetConfig stores it (faulty variant of GetSubStruct)
GetSubStructLowers(cfg, arg, p) ==
  LET t   == TypeOf(p)
      f   == cfg[p]
      key == IF t = "map[int]string" THEN Atoi(arg[3]) ELSE ToLower(arg[3])
      val == f.kv[key]
  IN IF Len(arg) > 2 THEN
       (IF t \notin GetKeyTypes \cup {"map[int]string"} THEN {<<"is not a map.">>}
        ELSE IF key \notin DOMAIN f.kv \/ (IsMapType(TypeElem(t)) /\ val.nil)
          THEN {<<"can't find " \o arg[3]>>}
        ELSE GetConfig(TypeElem(t), val))
     ELSE GetConfig(t, f)

\* the lines for the option at path p; arg[3], when present, is a map key
GetSubStruct(cfg, arg, p) ==
  LET t   == TypeOf(p)
      f   == cfg[p]
      key == IF t = "map[int]string" THEN Atoi(arg[3]) ELSE arg[3]
      val == f.kv[key]
  IN IF Len(arg) > 2 THEN
       (IF t \notin GetKeyTypes \cup {"map[int]string"} THEN {<<"is not a map.">>}
        ELSE IF key \notin DOMAIN f.kv \/ (IsMapType(TypeElem(t)) /\ val.nil)
          THEN {<<"can't find " \o arg[3]>>}
        ELSE GetConfig(TypeElem(t), val))
     ELSE GetConfig(t, f)

\* the shape suffix of the no-argument listing
ShapeSuffix(t) ==
  IF t \in {"[]uint64", "map[string]bool"} THEN " [list]"
  ELSE IF t \in {"map[string]string", "map[int64]int", "map[int]string", "map[string]int64"} THEN " [map]"
  ELSE IF t \in {"map[uint64][]string", "map[string]map[string]bool"} THEN " [maplist]"
  ELSE ""

\* one embed field per category, as text: its name, then its options one per line
Summary ==
  [i \in 1..Cardinality(Categories) |->
     LET c == CHOOSE c \in Categories : Cardinality({d \in Categories : d < c}) = i - 1
     IN BotConfig[c].Name \o ":\n"
        \o Join([j \in DOMAIN BotConfig[c].Fields |->
                   BotConfig[c].Fields[j].Name \o ShapeSuffix(BotConfig[c].Fields[j].Type)], "\n")]

\* the value preview of one option in the category listing
DumpLine(cfg, arg, i, j) ==
  LET name == BotConfig[i].Fields[j].Name
      Preview(lines) ==
        IF Len(lines) = 0 THEN name \o ": [empty]"
        ELSE IF Len(lines) = 1 THEN name \o ": " \o lines[1]
        ELSE name \o ": [" \o FormatInt(Len(lines)) \o " items]"
  IN Preview(CHOOSE l \in GetSubStruct(cfg, arg, OptionPath(i, j)) : TRUE)

Unrecognized == [form |-> "unrecognized", name |-> "", lines |-> <<>>]

\* getConfigCommand.Process: the replies it can give.  form names the
\* template the reply is built from, name the option and lines the lines put
\* into it (info.Sanitize is applied to them for display).
GetProcess(cfg, args) ==
  IF Len(args) < 1 THEN {[form |-> "summary", name |-> "", lines |-> Summary]}
  ELSE
    LET fix  == FixRequest(args[1])
        arg  == SplitN(ToLower(fix.path), ".", 3) \o (IF Len(args) > 1 THEN <<args[2]>> ELSE <<>>)
        tops == {i \in Categories : LowerNames[i].Name = arg[1]}
        i    == CHOOSE i \in tops : TRUE
        p    == FindOption(arg[1], arg[2])
    IN IF fix.err THEN {[form |-> "error", name |-> "", lines |-> <<fix.msg>>]}
       ELSE IF tops = {} THEN {Unrecognized}
       ELSE IF Len(arg) > 1 THEN
         (IF p = "" THEN {Unrecognized}
          ELSE {[form |-> IF Len(lines) = 0 THEN "empty" ELSE IF Len(lines) = 1 THEN "single" ELSE "multi",
                 name |-> arg[1] \o "." \o arg[2],
                 lines |-> lines] : lines \in GetSubStruct(cfg, arg, p)})
       ELSE {[form |-> "category", name |-> BotConfig[i].Name,
              lines |-> [j \in DOMAIN BotConfig[i].Fields |-> DumpLine(cfg, arg, i, j)]]}

(***************************************************************************)
(* setConfigCommand.Process                                                *)
(***************************************************************************)
\* the outcome of !setconfig args on configuration cfg: whether SetConfig was
\* reached, the path it was given, what it returned (out, ok) and the reply (msg)
SetProcess(cfg, args) ==
  LET fix == FixRequest(args[1])
      dud == [called |-> FALSE, path |-> "", cfg |-> cfg, ok |-> FALSE, out |-> ""]
      \* r is what SetConfig returns
      Answer(r) ==
        [called |-> TRUE, path |-> fix.path, cfg |-> r.cfg, ok |-> r.ok, out |-> r.msg,
         msg |-> IF r.ok THEN "Successfully set " \o fix.path \o " to " \o r.msg \o "."
                         ELSE r.msg]
  IN IF Len(args) < 1 THEN dud @@ [msg |-> "No configuration parameter to look for!"]
     ELSE IF Len(args) < 2 THEN dud @@ [msg |-> "No value to set!"]
     ELSE IF fix.err THEN dud @@ [msg |-> fix.msg]
     ELSE Answer(SetConfig(cfg, fix.path, args[2], SubSeq(args, 3, Len(args))))

(***************************************************************************)
(* A configuration as it is loaded for a guild that has been in use: the   *)
(* defaults plus entries in its collections.  Keys come from the stored    *)
(* JSON, so they need not be lower case and may name a role that has since *)
(* been deleted.                                                           *)
(***************************************************************************)
KV(keys, v) == [nil |-> FALSE, kv |-> [k \in keys |-> v]]

StoredConfig ==
  [DefaultConfig EXCEPT
     !["SetupDone"] = TRUE,
     !["Basic.ModRole"] = "101",
     !["Basic.ModChannel"] = "201",
     !["Basic.SilenceRole"] = "109",
     !["Basic.FreeChannels"] = SetOf({"202"}),
     !["Basic.Aliases"] = KV({"kawaii", "Cute"}, "pick cute"),
     !["Modules.CommandRoles"] = KV({"wipe"}, SetOf({"101"})),
     !["Modules.CommandLimits"] = KV({"wipe"}, 30),
     !["Modules.CommandDisabled"] = SetOf({"getaudit"}),
     !["Spam.MaxChannelPressure"] = KV({"201"}, FloatOf(FALSE, 75, 0)),
     !["Users.Roles"] = SetOf({"102", "109"}),
     !["Filter.Filters"] = KV({"emote"}, SetOf({"bob", "gak"})),
     !["Information.Rules"] = KV({1}, "be nice"),
     !["Quote.Quotes"] = KV({"301"}, [nil |-> FALSE, el |-> <<"yes", "no">>])]

InitConfigs == {FillConfig(DefaultConfig), FillConfig(StoredConfig)}

(***************************************************************************)
(* The commands users send.  A session addresses one kind of option        *)
(* (focus); its commands are drawn from the requests of that kind.         *)
(***************************************************************************)
\* how many commands a behaviour processes
MaxCommands == 2

Product(paths, values, extras) == {<<p, v>> \o e : p \in paths, v \in values, e \in extras}

ScalarRequests ==
  Product({"Spam.MaxPressure", "maxitems"}, {"75", "-2.50", "1000000", "notanumber"}, {<<>>})
  \cup Product({"Basic.CommandPrefix"}, {"75", "TRUE"}, {<<>>})
  \cup Product({"Basic.ModRole"}, {"Mods", "101", "notanumber"}, {<<>>})
  \cup Product({"Basic.ListenToBots"}, {"TRUE", "false", "75"}, {<<>>})
  \cup Product({"Spam", "Version", "version.x", "cooldown", "Channels", "nosuch", "Basic.nosuch"},
               {"75"}, {<<>>})
  \cup Product({"Bored.Cooldown"}, {"75"}, {<<>>})
  \cup Product({"SetupDone", "setupdone.x"}, {"false"}, {<<>>})
  \cup Product({"LastVersion", "lastversion.x"}, {"75"}, {<<>>})
  \cup {<<>>, <<"Spam.MaxPressure">>}

ListRequests ==
  Product({"Bored.Commands", "Basic.FreeChannels", "Modules.CommandDisabled"},
          {"", "201", "wipe"},
          {<<>>, <<"bogus", "202">>, <<"202">>, <<"">>})

MapRequests ==
  Product({"Basic.Aliases"}, {"kawaii", "Cute"}, {<<>>, <<"">>, <<"30">>, <<"pick cute">>})
  \cup Product({"Modules.CommandLimits"}, {"wipe", "bogus", "Wipe"}, {<<>>, <<"">>, <<"30">>, <<"pick cute">>})
  \cup Product({"Information.Rules"}, {"1", "x"}, {<<>>, <<"">>, <<"30">>, <<"pick cute">>})
  \cup Product({"Spam.MaxChannelPressure"}, {"201", "general"}, {<<>>, <<"">>, <<"30">>, <<"pick cute">>})

MapListRequests ==
  Product({"Filter.Filters"}, {"emote", "Emote", ""}, {<<>>, <<"101", "ave">>, <<"", "101">>, <<"101">>})
  \cup Product({"Modules.CommandRoles"}, {"wipe", "bogus"}, {<<>>, <<"101", "ave">>, <<"", "101">>, <<"101">>})
  \cup Product({"Quote.Quotes"}, {"301"}, {<<>>, <<"101", "ave">>, <<"", "101">>, <<"101">>})

Focuses == {"scalar", "list", "map", "maplist"}

SetRequests(kind) ==
  IF kind = "scalar" THEN ScalarRequests
  ELSE IF kind = "list" THEN ListRequests
  ELSE IF kind = "map" THEN MapRequests
  ELSE MapListRequests

\* the values a user passes to hand back the lines a !getconfig showed
PassedText(lines) == IF lines = <<>> THEN <<"">> ELSE lines

\* !setconfig requests that hand an option the text !getconfig shows for it
EchoRequests(kind, cfg) ==
  LET paths == IF kind = "scalar"
                 THEN {"Spam.MaxPressure", "Bucket.MaxItems", "Basic.CommandPrefix", "Basic.ListenToBots"}
               ELSE IF kind = "list" THEN {"Bored.Commands"}
               ELSE {}
  IN {<<p>> \o PassedText(lines) : <<p, lines>> \in UNION {{p} \X GetConfig(TypeOf(p), cfg[p]) : p \in paths}}

GetRequests(kind) ==
  IF kind = "scalar"
    THEN {<<>>, <<"Spam">>, <<"Spam.MaxPressure">>, <<"maxitems">>, <<"Basic.CommandPrefix">>,
          <<"Basic.ModRole">>, <<"Basic.ListenToBots">>, <<"cooldown">>, <<"nosuch">>}
  ELSE IF kind = "list"
    THEN {<<"Bored.Commands">>, <<"Basic.FreeChannels">>, <<"Modules.CommandDisabled">>,
          <<"Basic.FreeChannels", "201">>, <<"Bored">>}
  ELSE IF kind = "map"
    THEN {<<"Basic.Aliases">>, <<"Basic.Aliases", "kawaii">>, <<"Basic.Aliases", "Cute">>,
          <<"basic.aliases.Cute">>, <<"Modules.CommandLimits", "wipe">>,
          <<"Modules.CommandLimits", "Wipe">>,
          <<"Information.Rules", "1">>, <<"Information.Rules", "x">>,
          <<"Spam.MaxChannelPressure", "201">>}
  ELSE {<<"Filter.Filters">>, <<"Filter.Filters", "emote">>, <<"Filter.Filters", "Emote">>,
        <<"Quote.Quotes", "301">>,
        <<"Modules.CommandRoles", "wipe">>}

\* the option a path names, in its Go spelling Category.Option; "" when it names none
OptionOf(path) ==
  LET n == SplitN(ToLower(path), ".", 3)
  IN IF Len(n) < 2 THEN "" ELSE FindOption(n[1], n[2])

(***************************************************************************)
(* State                                                                   *)
(***************************************************************************)
VARIABLES
  config,   \* info.Config
  saves,    \* how many times info.SaveConfig has run
  lastSet,  \* the latest !setconfig: its arguments, its outcome and reply, the option it
            \* reached SetConfig with, the configuration before it
  reply,    \* the latest command, its arguments and the reply to it
  focus,    \* the kind of option this session's commands address
  commands, \* commands processed
  mig,      \* MigrateSettings: the blob it was given, where it stands, the steps it has
            \* applied, the legacy decodes that failed, how it ended, how many times it
            \* holds guild.Bot.GuildsLock
  calls,    \* the calls made so far that change something outside the configuration
            \* (Discord, the database)
  tenant    \* the guild's lock and the commands that run beside one another under it

vars == <<config, saves, lastSet, reply, focus, commands, mig, calls, tenant>>

(***************************************************************************)
(* The guild's lock.  Commands of one guild arrive beside one another; a   *)
(* command that changes the configuration, and the migration, hold the     *)
(* lock alone, commands that read it hold it together.                     *)
(***************************************************************************)
\* the !getconfig commands that run beside a !setconfig
Gets == {1, 2}

\* the options those commands set and read
ConcurrentOptions == {"Bored.Commands", "Basic.FreeChannels"}

\* the values of those options in cfg
Snapshot(cfg) == [p \in ConcurrentOptions |-> cfg[p]]

\* nobody holds the lock: no !setconfig is under way (set), no !getconfig has arrived
\* (get); committed: the values the options had when the latest !setconfig began and
\* when it ended
Idle ==
  [writer |-> "", readers |-> {},
   set |-> [pc |-> "idle", args |-> <<>>, p |-> "", k |-> 0, ok |-> FALSE, msg |-> ""],
   get |-> [g \in Gets |-> [pc |-> "idle", p |-> "", value |-> MakeMap, overlapped |-> FALSE]],
   committed |-> {}]

\* the lock is handed out without a look at who holds it (faulty variant of CanWrite)
CanWriteAlways(t) == TRUE

\* the lock can be taken alone: nobody holds it
CanWrite(t) == t.writer = "" /\ t.readers = {}

\* the lock can be taken together with other readers: nobody holds it alone
CanRead(t) == t.writer = ""

\* the guild's configuration has been loaded: no migration is under way
Loaded == [pc |-> "loaded", blob |-> <<>>, store |-> "", persisted |-> ConfigVersion,
           steps |-> <<>>, failed |-> {}, result |-> "", savedAfter |-> <<>>, held |-> 0]

Init ==
  /\ config \in InitConfigs
  /\ saves = 0
  /\ lastSet = [done |-> FALSE, called |-> FALSE, args |-> <<>>, path |-> "", out |-> "",
                ok |-> FALSE, msg |-> "", opt |-> "", before |-> config]
  /\ reply = [cmd |-> "", args |-> <<>>, form |-> "", name |-> "", lines |-> <<>>]
  /\ focus \in Focuses
  /\ commands = 0
  /\ mig = Loaded
  /\ calls = {}
  /\ tenant = Idle

\* !setconfig args...
SetConfigCmd ==
  /\ mig.pc = "loaded"
  /\ commands < MaxCommands
  /\ \E args \in SetRequests(focus) \cup EchoRequests(focus, config) :
       \E r \in {SetProcess(config, args)} :
         /\ config' = r.cfg
         /\ saves' = IF r.called THEN saves + 1 ELSE saves
         /\ lastSet' = [done |-> TRUE, called |-> r.called, args |-> args, path |-> r.path,
                        out |-> r.out, ok |-> r.ok, msg |-> r.msg,
                        opt |-> IF r.called THEN OptionOf(r.path) ELSE "", before |-> config]
         /\ reply' = [cmd |-> "setconfig", args |-> args, form |-> "text", name |-> r.path,
                      lines |-> <<r.msg>>]
         /\ commands' = commands + 1
         /\ UNCHANGED <<focus, mig, calls, tenant>>

\* a !getconfig that saves the configuration as !setconfig does (faulty variant of GetConfigCmd)
GetConfigCmdSaves ==
  /\ mig.pc = "loaded"
  /\ commands < MaxCommands
  /\ \E args \in GetRequests(focus) :
       \E r \in GetProcess(config, args) :
         /\ reply' = [cmd |-> "getconfig", args |-> args, form |-> r.form, name |-> r.name,
                      lines |-> r.lines]
         /\ saves' = saves + 1
         /\ commands' = commands + 1
         /\ UNCHANGED <<config, lastSet, focus, mig, calls, tenant>>

\* !getconfig args...
GetConfigCmd ==
  /\ mig.pc = "loaded"
  /\ commands < MaxCommands
  /\ \E args \in GetRequests(focus) :
       \E r \in GetProcess(config, args) :
         /\ reply' = [cmd |-> "getconfig", args |-> args, form |-> r.form, name |-> r.name,
                      lines |-> r.lines]
         /\ commands' = commands + 1
         /\ UNCHANGED <<config, saves, lastSet, focus, mig, calls, tenant>>

Next == SetConfigCmd \/ GetConfigCmd

Spec == Init /\ [][Next]_vars

TypeOK ==
  /\ DOMAIN config = AllPaths
  /\ saves \in 0..MaxCommands
  /\ commands \in 0..MaxCommands

(***************************************************************************)
(* What the latest !setconfig and the !getconfig after it were about       *)
(***************************************************************************)
\* the option the latest !setconfig reached SetConfig with, "" when there is none
SetOpt == lastSet.opt

\* value and extra of that call
SetValue == lastSet.args[2]

SetExtra == SubSeq(lastSet.args, 3, Len(lastSet.args))

\* arg of getConfigCommand.Process for the latest !getconfig
GetArg ==
  SplitN(ToLower(FixRequest(reply.args[1]).path), ".", 3)
    \o (IF Len(reply.args) > 1 THEN <<reply.args[2]>> ELSE <<>>)

\* the latest command is a !getconfig that showed option p ...
GetShows(p) ==
  /\ reply.cmd = "getconfig"
  /\ reply.form \in {"empty", "single", "multi"}
  /\ p # ""
  /\ OptionOf(reply.name) = p

\* ... as a whole
GetWhole(p) == GetShows(p) /\ Len(GetArg) = 2

\* ... under key argument k
GetKeyed(p, k) == GetShows(p) /\ Len(GetArg) > 2 /\ GetArg[3] = k

\* the first path segment a request gives, lower-cased
FirstSegment(args) == SplitN(ToLower(args[1]), ".", 3)[1]

\* a top-level field of BotConfig has this name
IsTopName(a) == \E i \in DOMAIN BotConfig : LowerNames[i].Name = a

\* the categories that have an option of this name
HomeCategories(a) ==
  {i \in Categories : \E j \in DOMAIN BotConfig[i].Fields : LowerNames[i].Fields[j] = a}

\* the lines of a text
Lines(s) == SplitN(s, "\n", Len(s) + 1)

\* the key a map stores for key text k of type t
StoredKey(t, k) == setConfigValue(TypeKey(t), Zero(TypeKey(t)), ToLower(k))

\* the entries of two maps agree outside key k
SameElsewhere(f, g, k) ==
  /\ (DOMAIN f.kv) \ {k} = (DOMAIN g.kv) \ {k}
  /\ \A x \in (DOMAIN f.kv) \ {k} : f.kv[x] = g.kv[x]

\* every option but p is as it was before the latest !setconfig
OthersUnchanged(p) == \A q \in AllPaths \ {p} : config[q] = lastSet.before[q]

(***************************************************************************)
(* C1  Set on a List/Set option is all-or-nothing.                         *)
(***************************************************************************)
\* C1: when one of the values handed to a List/Set option does not parse
\* (the first value non-empty, so the call is no request to clear), Set
\* returns success=false and the option holds the collection it held before.
\* Stated for the lists of modules and commands, whose elements
\* setConfigValue validates itself.
C1_ListSetAllOrNothing ==
  (/\ SetOpt # ""
   /\ TypeOf(SetOpt) \in SetListTypes
   /\ TypeKey(TypeOf(SetOpt)) \in {"ModuleID", "CommandID"}
   /\ Len(SetValue) > 0
   /\ \E i \in 1..(Len(lastSet.args) - 1) :
        setConfigValue(TypeKey(TypeOf(SetOpt)), "", lastSet.args[i + 1]).err)
  => /\ ~lastSet.ok
     /\ config[SetOpt] = lastSet.before[SetOpt]

(***************************************************************************)
(* C2  A scalar that fails to parse is left alone.                         *)
(***************************************************************************)
NoDigit(s) == \A i \in 1..Len(s) : IndexIn(Char(s, i), Digits) = 0

\* text that is no number (numeric option) or names nothing in the guild (reference)
Unparsable(t, value) ==
  IF t \in IntTypes \cup UintTypes \cup FloatTypes
    THEN NoDigit(value) /\ ToLower(Unsigned(value)) \notin {"inf", "infinity", "nan"}
    ELSE t \in {"DiscordRole", "DiscordChannel", "DiscordUser"} /\ setConfigValue(t, "", value).err

\* C2: Set on a Scalar or Reference option with a value text that does not
\* parse returns "Error: " and the parse error with success=false, and the
\* configuration, the option's prior value included, is unchanged.
C2_UnparsableScalarUnchanged ==
  (/\ SetOpt # ""
   /\ TypeOf(SetOpt) \in SetValueTypes
   /\ Unparsable(TypeOf(SetOpt), SetValue))
  => /\ ~lastSet.ok
     /\ HasPrefix(lastSet.out, "Error: ")
     /\ Len(lastSet.out) > Len("Error: ")
     /\ lastSet.msg = lastSet.out
     /\ config = lastSet.before

\* C2: Spam.MaxPressure was set to "notanumber" and is still the default 60
C2_Witness ==
  /\ lastSet.called
  /\ lastSet.args = <<"Spam.MaxPressure", "notanumber">>
  /\ ~lastSet.ok
  /\ lastSet.out = "Error: strconv.ParseFloat: parsing \"notanumber\": invalid syntax"
  /\ config["Spam.MaxPressure"] = FloatOf(FALSE, 6, 1)
  /\ reply.cmd = "getconfig" /\ reply.args = <<"Spam.MaxPressure">> /\ reply.lines = <<"60">>

(***************************************************************************)
(* C3, C4  FixRequest on a bare option name                                *)
(***************************************************************************)
\* C3: when the first segment of the path a command gives is, without regard
\* to case, no top-level name and the name of an option of exactly one
\* category, FixRequest returns no error and the path qualified with that
\* category (lower-cased), which names that category's option.
C3_UniqueOptionQualified ==
  /\ (/\ lastSet.done
      /\ Len(lastSet.args) >= 2
      /\ ~IsTopName(FirstSegment(lastSet.args))
      /\ Cardinality(HomeCategories(FirstSegment(lastSet.args))) = 1)
     => LET c == CHOOSE i \in HomeCategories(FirstSegment(lastSet.args)) : TRUE
        IN /\ lastSet.called
           /\ lastSet.path = LowerNames[c].Name \o "." \o lastSet.args[1]
           /\ SetOpt # ""
           /\ HasPrefix(SetOpt, BotConfig[c].Name \o ".")
           /\ ToLower(SetOpt) = LowerNames[c].Name \o "." \o FirstSegment(lastSet.args)
  /\ (/\ reply.cmd = "getconfig"
      /\ Len(reply.args) >= 1
      /\ ~IsTopName(FirstSegment(reply.args))
      /\ Cardinality(HomeCategories(FirstSegment(reply.args))) = 1)
     => LET c == CHOOSE i \in HomeCategories(FirstSegment(reply.args)) : TRUE
        IN /\ reply.form \in {"empty", "single", "multi"}
           /\ reply.name = LowerNames[c].Name \o "." \o FirstSegment(reply.args)

\* C3: "maxitems" was resolved to Bucket's option, by !setconfig and by !getconfig
C3_Witness ==
  /\ lastSet.called
  /\ lastSet.args[1] = "maxitems"
  /\ lastSet.path = "bucket.maxitems"
  /\ SetOpt = "Bucket.MaxItems"
  /\ reply.cmd = "getconfig" /\ reply.args = <<"maxitems">> /\ reply.name = "bucket.maxitems"

\* the candidates an ambiguity message lists
Candidates(msg) == {Lines(msg)[k] : k \in 2..Len(Lines(msg))}

\* C4: when the first segment is no top-level name and the name of an option
\* of two or more categories, FixRequest returns an error and no path: the
\* command stops there, changes nothing, and its reply lists Category.option
\* once for every category that has the option.
C4_AmbiguousOptionListed ==
  /\ (/\ lastSet.done
      /\ Len(lastSet.args) >= 2
      /\ ~IsTopName(FirstSegment(lastSet.args))
      /\ Cardinality(HomeCategories(FirstSegment(lastSet.args))) >= 2)
     => /\ ~lastSet.called
        /\ lastSet.path = ""
        /\ config = lastSet.before
        /\ Lines(lastSet.msg)[1] = "Could be any of the following:"
        /\ Len(Lines(lastSet.msg)) = 1 + Cardinality(HomeCategories(FirstSegment(lastSet.args)))
        /\ Candidates(lastSet.msg) =
             {BotConfig[i].Name \o "." \o FirstSegment(lastSet.args) :
                i \in HomeCategories(FirstSegment(lastSet.args))}
  /\ (/\ reply.cmd = "getconfig"
      /\ Len(reply.args) >= 1
      /\ ~IsTopName(FirstSegment(reply.args))
      /\ Cardinality(HomeCategories(FirstSegment(reply.args))) >= 2)
     => /\ reply.form = "error"
        /\ Len(Lines(reply.lines[1])) = 1 + Cardinality(HomeCategories(FirstSegment(reply.args)))
        /\ Candidates(reply.lines[1]) =
             {BotConfig[i].Name \o "." \o FirstSegment(reply.args) :
                i \in HomeCategories(FirstSegment(reply.args))}

\* C4: "cooldown" was refused with its four candidates
C4_Witness ==
  /\ lastSet.done
  /\ Len(lastSet.args) = 2
  /\ lastSet.args[1] = "cooldown"
  /\ ~lastSet.called
  /\ lastSet.msg = "Could be any of the following:\nBored.cooldown\nLog.cooldown\nWitty.cooldown\nStatus.cooldown"
  /\ reply.cmd = "getconfig" /\ reply.args = <<"cooldown">> /\ reply.form = "error"

C7_MapSetThenGet ==
  (/\ SetOpt # ""
   /\ TypeOf(SetOpt) \in SetKeyValueTypes
   /\ lastSet.ok
   /\ Len(lastSet.args) >= 3
   /\ lastSet.args[3] # ""
   /\ SetValue = ToLower(SetValue))
  => LET t == TypeOf(SetOpt)
         k == StoredKey(t, SetValue).val
     IN /\ k \in DOMAIN config[SetOpt].kv
        /\ Sprint(TypeElem(t), config[SetOpt].kv[k]) = lastSet.args[3]
        /\ SameElsewhere(config[SetOpt], lastSet.before[SetOpt], k)
        /\ GetKeyed(SetOpt, SetValue) => reply.lines = <<lastSet.args[3]>>

(***************************************************************************)
(* C6  Set on a MapList option                                             *)
(***************************************************************************)
\* C6: Set on a MapList option with key k and a non-empty list of extra
\* values installs exactly those values under k and leaves the other keys
\* alone.  Stated for the MapList of plain strings, where every value parses.
C6_MapListInstallsExtras ==
  (/\ SetOpt # ""
   /\ TypeOf(SetOpt) = "map[string]map[string]bool"
   /\ Len(SetValue) > 0
   /\ Len(lastSet.args) >= 3)
  => /\ lastSet.ok
     /\ ToLower(SetValue) \in DOMAIN config[SetOpt].kv
     /\ DOMAIN config[SetOpt].kv[ToLower(SetValue)].kv = Range(SetExtra)
     /\ SameElsewhere(config[SetOpt], lastSet.before[SetOpt], ToLower(SetValue))

(***************************************************************************)
(* C8  Clearing a List/Set option                                          *)
(***************************************************************************)
\* C8: Set on a List/Set option with an empty value and no extra values
\* succeeds and leaves the option an empty, non-nil collection whatever it
\* held before (no other option changes); a !getconfig of the option then
\* reports "[empty]".
C8_EmptyValueClearsList ==
  (/\ SetOpt # ""
   /\ TypeOf(SetOpt) \in SetListTypes
   /\ lastSet.args = <<lastSet.args[1], "">>)
  => /\ lastSet.ok
     /\ lastSet.out = "[]"
     /\ ~config[SetOpt].nil
     /\ DOMAIN config[SetOpt].kv = {}
     /\ OthersUnchanged(SetOpt)
     /\ GetWhole(SetOpt) => (reply.form = "empty" /\ reply.lines = <<>>)

\* C8: Bored.Commands held commands, was cleared, and shows as [empty]
C8_Witness ==
  /\ lastSet.called
  /\ lastSet.args = <<"Bored.Commands", "">>
  /\ DOMAIN lastSet.before["Bored.Commands"].kv = {"!quote", "!drop"}
  /\ config["Bored.Commands"] = MakeMap
  /\ reply.cmd = "getconfig"
  /\ reply.args = <<"Bored.Commands">>
  /\ reply.form = "empty"

(***************************************************************************)
(* C9  Setting a number and reading it back                                *)
(***************************************************************************)
NumericTypes == IntTypes \cup UintTypes \cup FloatTypes

\* a natural number written without leading zeros
CanonicalNat(s) == AllDigits(s) /\ (Len(s) = 1 \/ Char(s, 1) # "0")

\* the text of a number as fmt prints a value of type t: an integer without
\* leading zeros or "+"; a float32 in plain notation, at most six
\* digits (what a float32 keeps exactly), no trailing zero in the fraction, at least 0.0001
\* and below 1000000 in magnitude (beyond that fmt switches to an exponent)
CanonicalNumber(t, s) ==
  LET neg  == HasPrefix(s, "-")
      body == IF neg THEN Tail(s) ELSE s
      dot  == IndexByte(body, ".")
      ip   == IF dot = 0 THEN body ELSE SubSeq(body, 1, dot - 1)
      fp   == IF dot = 0 THEN "" ELSE SubSeq(body, dot + 1, Len(body))
  IN IF t \in UintTypes THEN CanonicalNat(s)
     ELSE IF t \in IntTypes THEN CanonicalNat(body) /\ (neg => body # "0")
     ELSE /\ CanonicalNat(ip)
          /\ dot # 0 => (AllDigits(fp) /\ Char(fp, Len(fp)) # "0")
          /\ Len(ip) + Len(fp) <= 6
          /\ neg => body # "0"
          /\ ip = "0" => (dot = 0 \/ ~HasPrefix(fp, "0000"))

\* C9: Set of a numeric Scalar option with canonical numeric text t succeeds
\* and echoes t, changes no other option, and a !getconfig of the option
\* then returns the single line t.
C9_CanonicalNumberReadBack ==
  (/\ SetOpt # ""
   /\ TypeOf(SetOpt) \in NumericTypes
   /\ CanonicalNumber(TypeOf(SetOpt), SetValue))
  => /\ lastSet.ok
     /\ lastSet.out = SetValue
     /\ lastSet.msg = "Successfully set " \o lastSet.path \o " to " \o SetValue \o "."
     /\ Sprint(TypeOf(SetOpt), config[SetOpt]) = SetValue
     /\ OthersUnchanged(SetOpt)
     /\ GetWhole(SetOpt) => (reply.form = "single" /\ reply.lines = <<SetValue>>)

\* C9: Spam.MaxPressure was set to "75" and reads back as "75"
C9_Witness ==
  /\ lastSet.called
  /\ lastSet.args = <<"Spam.MaxPressure", "75">>
  /\ lastSet.ok
  /\ config["Spam.MaxPressure"] = FloatOf(FALSE, 75, 0)
  /\ reply.cmd = "getconfig"
  /\ reply.args = <<"Spam.MaxPressure">>
  /\ reply.lines = <<"75">>

(***************************************************************************)
(* C10  Get, Set of the text, Get again                                    *)
(***************************************************************************)
\* options that hold no role, channel, user, module or command
ScalarTypes == {"string", "bool"} \cup NumericTypes

NonReferenceTypes ==
  ScalarTypes \cup {"map[string]bool", "map[string]string", "map[int]string", "map[string]map[string]bool"}

\* the latest !setconfig handed its option the lines !getconfig showed for it just before
Echoed ==
  /\ SetOpt # ""
  /\ Tail(lastSet.args) \in {PassedText(l) : l \in GetConfig(TypeOf(SetOpt), lastSet.before[SetOpt])}

SetSegments == SplitN(ToLower(lastSet.args[1]), ".", 3)

\* C11: Set with a path that names only a category is rejected with the
\* message "Can't set a configuration category" and success=false, and no
\* option of any category changes.
C11_CategoryNotSettable ==
  (/\ lastSet.done
   /\ Len(lastSet.args) >= 2
   /\ Len(SetSegments) = 1
   /\ \E i \in Categories : LowerNames[i].Name = SetSegments[1])
  => /\ lastSet.called
     /\ ~lastSet.ok
     /\ HasPrefix(lastSet.out, "Can't set a configuration category")
     /\ lastSet.msg = lastSet.out
     /\ config = lastSet.before

\* C11: !setconfig Spam 75 was turned down on the stored configuration
C11_Witness ==
  /\ lastSet.called
  /\ lastSet.args = <<"Spam", "75">>
  /\ lastSet.out = "Can't set a configuration category! Use \"Category.Option\" to set a specific option."
  /\ lastSet.before["SetupDone"]
  /\ config = lastSet.before

(***************************************************************************)
(* C12  Set on a Boolean option                                            *)
(***************************************************************************)
\* C12: Set on a Boolean option accepts the texts that equal "true" or
\* "false" when case is ignored and assigns the value they name, no other
\* option changing; for any other text it returns success=false with a
\* message that names the option, and changes nothing.
C12_BooleanTrueOrFalse ==
  (SetOpt # "" /\ TypeOf(SetOpt) = "bool")
  => IF ToLower(SetValue) \in {"true", "false"}
       THEN /\ lastSet.ok
            /\ config[SetOpt] = (ToLower(SetValue) = "true")
            /\ OthersUnchanged(SetOpt)
       ELSE /\ ~lastSet.ok
            /\ lastSet.out = lastSet.path \o " must be set to either 'true' or 'false'"
            /\ OptionOf(lastSet.path) = SetOpt
            /\ config = lastSet.before

\* C12: Basic.ListenToBots was false and "TRUE" set it
C12_Witness ==
  /\ lastSet.called
  /\ lastSet.args = <<"Basic.ListenToBots", "TRUE">>
  /\ lastSet.before["Basic.ListenToBots"] = FALSE
  /\ config["Basic.ListenToBots"] = TRUE
  /\ lastSet.ok

(***************************************************************************)
(* C13  A path that names nothing                                          *)
(***************************************************************************)
\* the latest !setconfig named no top-level field and no option of any
\* category, or a category and an option that category does not have
NamesNothing ==
  /\ lastSet.done
  /\ Len(lastSet.args) >= 2
  /\ \/ ~IsTopName(SetSegments[1]) /\ HomeCategories(SetSegments[1]) = {}
     \/ /\ \E i \in Categories : LowerNames[i].Name = SetSegments[1]
        /\ Len(SetSegments) >= 2
        /\ FindOption(SetSegments[1], SetSegments[2]) = ""

C14_GetReadOnly ==
  [][(reply'.cmd = "getconfig" /\ commands' # commands)
      => (config' = config /\ saves' = saves)]_vars

\* C14: a !getconfig with a key argument has answered after a !setconfig
\* that changed the configuration and saved it
C14_Witness ==
  /\ reply.cmd = "getconfig"
  /\ Len(reply.args) = 2
  /\ lastSet.called
  /\ config # lastSet.before
  /\ saves = 1

(***************************************************************************)
(* C15, C16  Get with a key argument                                       *)
(***************************************************************************)
\* the option the latest !getconfig was asked to look up under a key, "" when there is none
GetOpt ==
  IF reply.cmd = "getconfig" /\ reply.form \in {"empty", "single", "multi"} /\ Len(reply.args) = 2
    THEN OptionOf(reply.name) ELSE ""

\* the keys of a map as they are written
KeyTexts(t, f) == {Sprint(TypeKey(t), k) : k \in DOMAIN f.kv}

\* C15: for every Map or MapList option, those keyed by command or module
\* names among them, Get with a key argument that is no key of the option
\* returns the single line "can't find {key}".
C15_MissingKeyNotFound ==
  (/\ GetOpt # ""
   /\ TypeOf(GetOpt) \in SetKeyValueTypes \cup SetMapListTypes
   /\ reply.args[2] \notin KeyTexts(TypeOf(GetOpt), config[GetOpt]))
  => reply.lines = <<"can't find " \o reply.args[2]>>

\* C16: for every MapList option Get with a key argument that is present
\* returns one line per element of the list stored under that key.
C16_MapListKeyLines ==
  (/\ GetOpt # ""
   /\ TypeOf(GetOpt) \in SetMapListTypes
   /\ reply.args[2] \in DOMAIN config[GetOpt].kv)
  => Len(reply.lines) = LenOf(TypeElem(TypeOf(GetOpt)), config[GetOpt].kv[reply.args[2]])

(***************************************************************************)
(* MigrateSettings.  The blob is the JSON document stored for the guild.   *)
(* A blob saved by a version below 10 has the flat layout legacyBotConfig  *)
(* reads; a later one has one object per category.  What a blob holds is   *)
(* given by the values its decodes yield.                                  *)
(***************************************************************************)
\* the structures MigrateSettings decodes the blob into
Shapes == {"BotConfig", "legacyBotConfig", "legacyBotConfigV10", "legacyBotConfigV12",
           "legacyBotConfigV13", "legacyBotConfigV19", "legacyBotConfigV20"}

\* version: every released version and one from a newer build.
\* bad: the structures whose decode fails on a value of the wrong type (all of them: the
\* blob is no JSON at all).
\* alertrole: the mod role the blob holds, none or the role Mods.
\* maps: how the blob holds the maps of the configuration: it names none of them, it names
\* each as an empty object (saved after FillConfig), it names them with entries, or it
\* names them with entries and leaves out the channels of the modules.
Blobs ==
  [version : 0..(ConfigVersion + 1),
   bad : {{}} \cup {{s} : s \in Shapes} \cup {Shapes},
   alertrole : {0, 101},
   maps : {"absent", "empty", "set", "nochannels"}]

\* a map as the blob holds it: with these entries, empty, or not named (nil once decoded)
BlobMap(blob, entries) ==
  IF blob.maps \in {"set", "nochannels"} THEN entries
  ELSE IF blob.maps = "empty" THEN MakeMap ELSE NilMap

\* modules.channels, module_channels: the map the blob may leave out on its own
BlobChannels(blob) ==
  IF blob.maps = "nochannels" THEN NilMap
  ELSE BlobMap(blob, KV({"schedule", "help/about"}, SetOf({"201"})))

\* json.Unmarshal reports an error for this structure
DecodeFails(blob, shape) == shape \in blob.bad

\* strconv.FormatUint(v, 10) as a role, channel or user id
NewDiscordRole(v) == FormatNat(v)

NewDiscordChannel(v) == FormatNat(v)

NewDiscordUser(v) == FormatNat(v)

\* ParseRole, ParseChannel without a guild: a raw id or a mention
ParseID(k, open) ==
  IF AllDigits(k) THEN [err |-> FALSE, val |-> k]
  ELSE IF HasPrefix(k, open) /\ Len(k) > Len(open) + 1 /\ Char(k, Len(k)) = ">"
            /\ AllDigits(SubSeq(k, Len(open) + 1, Len(k) - 1))
    THEN [err |-> FALSE, val |-> SubSeq(k, Len(open) + 1, Len(k) - 1)]
  ELSE [err |-> TRUE, val |-> ""]

\* for k, v := range m { if id, err := Parse(k, nil); err == nil { out[id] = v } }
ParsedKeys(m, open) ==
  LET ids == {ParseID(k, open).val : k \in {k \in DOMAIN m.kv : ~ParseID(k, open).err}}
  IN [nil |-> FALSE,
      kv |-> [id \in ids |-> m.kv[CHOOSE k \in DOMAIN m.kv : ParseID(k, open) = [err |-> FALSE, val |-> id]]]]

\* for key := range m { out[key] = make(...); the inner loop over m[key] }
ParsedInner(m, open) == [nil |-> FALSE, kv |-> [key \in DOMAIN m.kv |-> ParsedKeys(m.kv[key], open)]]

(***************************************************************************)
(* json.Unmarshal(config, &guild.Config): the fields the blob names are    *)
(* stored, every other field keeps the value it had.                       *)
(***************************************************************************)
\* the options a blob with one object per category names in the current structure
CategoryStored(blob) ==
  [p \in {"Version", "Basic.ModChannel", "Modules.Channels", "Modules.CommandRoles", "Modules.Disabled",
          "Spam.AutoSilence", "Spam.MaxRemoveLookback", "Log.Channel", "Bucket.MaxItems"}
         \cup (IF blob.version > 10 THEN {"Modules.CommandPerDuration", "Modules.CommandMaxDuration"} ELSE {})
         \cup (IF blob.version > 16 THEN {"Basic.CommandPrefix"} ELSE {})
         \cup (IF blob.version > 20 THEN {"Basic.ModRole"} ELSE {}) |->
     IF p = "Version" THEN blob.version
     ELSE IF p = "Basic.ModChannel" THEN "201"
     ELSE IF p = "Modules.Channels" THEN BlobChannels(blob)
     ELSE IF p = "Modules.CommandRoles" THEN BlobMap(blob, KV({"wipe"}, SetOf({"101"})))
     ELSE IF p = "Modules.Disabled" THEN BlobMap(blob, SetOf({"anti-spam", "schedule"}))
     ELSE IF p = "Spam.AutoSilence" THEN -2
     ELSE IF p = "Spam.MaxRemoveLookback" THEN 4
     ELSE IF p = "Log.Channel" THEN "202"
     ELSE IF p = "Bucket.MaxItems" THEN 10
     ELSE IF p = "Modules.CommandPerDuration" THEN 2
     ELSE IF p = "Modules.CommandMaxDuration" THEN 20
     ELSE IF p = "Basic.CommandPrefix" THEN "~"
     ELSE IF blob.alertrole = 0 THEN "" ELSE NewDiscordRole(blob.alertrole)]

\* a field the blob does not name, a map among them, keeps the value it had
DecodeInto(cfg, stored) ==
  [p \in AllPaths |->
     IF p \in DOMAIN stored /\ (IsMapType(TypeOf(p)) => ~stored[p].nil) THEN stored[p] ELSE cfg[p]]

\* A blob that is not valid JSON fails every decode, and json.Unmarshal checks that before
\* it stores anything.  A blob of the flat layout names one field of the current
\* structure: version.
DecodeBotConfig(cfg, blob) ==
  IF blob.bad = Shapes THEN cfg
  ELSE IF blob.version < 10 THEN [cfg EXCEPT !["Version"] = blob.version]
  ELSE DecodeInto(cfg, CategoryStored(blob))

(***************************************************************************)
(* The legacy structures as json.Unmarshal fills them from the blob.       *)
(***************************************************************************)
legacyBotConfig(blob) ==
  [Version |-> blob.version,
   Maxerror |-> 4, Maxwit |-> 180, Maxbored |-> 500,
   BoredCommands |-> BlobMap(blob, SetOf({"!quote"})),
   MaxPMlines |-> 5, Maxquotelines |-> 30, Maxsearchresults |-> 10, Defaultmarkovlines |-> 5,
   Commandperduration |-> 2, Commandmaxduration |-> 20,
   StatusDelayTime |-> 3600, MaxRaidTime |-> 240, RaidSize |-> 4,
   Witty |-> BlobMap(blob, KV({"hi"}, "hello")),
   Aliases |-> BlobMap(blob, KV({"kawaii"}, "pick cute")),
   MaxBucket |-> 10, MaxBucketLength |-> 100, MaxFightHP |-> 300, MaxFightDamage |-> 60,
   MaxSpamRemoveLookback |-> 4,
   IgnoreInvalidCommands |-> TRUE, UseMemberNames |-> TRUE, Importable |-> FALSE,
   HideNegativeRules |-> FALSE,
   Timezone |-> -5, TimezoneLocation |-> IF blob.version > 5 THEN "Europe/Berlin" ELSE "",
   AutoSilence |-> 1,
   AlertRole |-> blob.alertrole, SilentRole |-> 102, LogChannel |-> 202, ModChannel |-> 201,
   WelcomeChannel |-> 0, WelcomeMessage |-> "welcome", SilenceMessage |-> "",
   BirthdayRole |-> 0,
   SpoilChannels |-> <<202>>,
   FreeChannels |-> BlobMap(blob, SetOf({"202", "bot"})),
   Command_roles |-> BlobMap(blob, KV({"wipe"}, SetOf({"101", "Mods"}))),
   Command_channels |-> BlobMap(blob, KV({"wipe"}, SetOf({"201"}))),
   Command_limits |-> BlobMap(blob, KV({"wipe"}, 30)),
   Command_disabled |-> BlobMap(blob, SetOf({"getaudit"})),
   Module_disabled |-> BlobMap(blob, SetOf({"anti-spam", "schedule"})),
   Module_channels |-> BlobChannels(blob),
   Collections |-> BlobMap(blob, KV({"emote"}, SetOf({"bob"}))),
   Quotes |-> BlobMap(blob, KV({301}, [nil |-> FALSE, el |-> <<"yes", "no">>])),
   Groups |-> BlobMap(blob, KV({"artists", "mods"}, SetOf({"301"}))),
   Rules |-> BlobMap(blob, KV({1}, "be nice"))]

\* basic.commandperduration and basic.commandmaxduration: a blob of version 10 holds them
legacyBotConfigV10(blob) ==
  [Commandperduration |-> IF blob.version = 10 THEN 2 ELSE 0,
   Commandmaxduration |-> IF blob.version = 10 THEN 20 ELSE 0]

\* spam.maximagespam and spam.maxpingspam: held up to version 12
legacyBotConfigV12(blob) ==
  [MaxImages |-> IF blob.version \in 10..12 THEN 4 ELSE 0,
   MaxPings |-> 0]

\* basic.groups: held up to version 13
legacyBotConfigV13(blob) ==
  [Groups |-> IF blob.version \in 10..13 THEN BlobMap(blob, KV({"artists", "mods"}, SetOf({"301"})))
               ELSE NilMap]

\* basic.collections: held up to version 19
legacyBotConfigV19(blob) ==
  [Collections |-> IF blob.version \in 10..19
                     THEN BlobMap(blob, KV({"emote", "bucket", "pony"}, SetOf({"bob"}))) ELSE NilMap]

\* collections: at the top level in the flat layout and in version 20; spam.silentrole,
\* basic.alertrole, search, spoiler, schedule: held from version 10 up to version 20
legacyBotConfigV20(blob) ==
  [Collections |-> IF blob.version < 10 THEN legacyBotConfig(blob).Collections
                   ELSE IF blob.version = 20
                     THEN BlobMap(blob, KV({"emote", "bucket"}, SetOf({"bob"})))
                   ELSE NilMap,
   SilentRole |-> IF blob.version \in 10..20 THEN "102" ELSE "",
   SilenceMessage |-> IF blob.version \in 10..20 THEN "hush" ELSE "",
   AlertRole |-> IF blob.version \in 10..20 THEN NewDiscordRole(blob.alertrole) ELSE "",
   TrackUserLeft |-> blob.version \in 10..20,
   MaxResults |-> IF blob.version \in 10..20 THEN 10 ELSE 0,
   SpoilChannels |-> IF blob.version \in 10..20 THEN <<"202">> ELSE <<>>,
   BirthdayRole |-> IF blob.version \in 10..20 THEN "0" ELSE ""]

(***************************************************************************)
(* restrictCommand and the steps of MigrateSettings.  A step takes the     *)
(* configuration and the blob and gives the configuration it leaves and    *)
(* how it went: "ok", "failed" (its legacy decode failed and the step went *)
(* on without it), "error" (it made MigrateSettings return the error) or   *)
(* "panic" (an assignment to an entry of a nil map).                       *)
(***************************************************************************)
\* makes the entry whether or not the command has one (faulty variant of restrictCommand)
restrictCommandOverwrites(v, roles, modrole) ==
  IF modrole # ""
    THEN (IF roles.nil THEN [roles |-> roles, panic |-> TRUE]
          ELSE [roles |-> MapPut(roles, v, SetOf({modrole})), panic |-> FALSE])
  ELSE [roles |-> roles, panic |-> FALSE]

restrictCommand(v, roles, modrole) ==
  IF v \notin DOMAIN roles.kv /\ modrole # ""
    THEN (IF roles.nil THEN [roles |-> roles, panic |-> TRUE]
          ELSE [roles |-> MapPut(roles, v, SetOf({modrole})), panic |-> FALSE])
  ELSE [roles |-> roles, panic |-> FALSE]

Went(cfg, out) == [cfg |-> cfg, out |-> out]

\* after a run r of restrictCommand calls the step leaves cfg, unless one of them panicked
Then(r, cfg) == IF r.out = "panic" THEN r ELSE Went(cfg, r.out)

\* a run of restrictCommand calls on guild.Config.Modules.CommandRoles
RECURSIVE Restrict(_, _)
Restrict(cmds, r) ==
  LET After(x) == IF x.panic THEN Went(r.cfg, "panic")
                  ELSE Went([r.cfg EXCEPT !["Modules.CommandRoles"] = x.roles], r.out)
  IN IF cmds = <<>> \/ r.out = "panic" THEN r
     ELSE Restrict(Tail(cmds),
                   After(restrictCommand(Head(cmds), r.cfg["Modules.CommandRoles"], r.cfg["Basic.ModRole"])))

\* the commands the steps hand to restrictCommand, by the step's condition
NewCommands ==
  [n \in {"< 10", "<= 11", "<= 14", "<= 15", "<= 18", "<= 19"} |->
     IF n = "< 10"
       THEN <<"addevent", "addbirthday", "autosilence", "silence", "unsilence", "wipewelcome",
              "new", "addquote", "removequote", "removealias", "delete", "createpoll",
              "deletepoll", "addoption">>
     ELSE IF n = "<= 11" THEN <<"getaudit">>
     ELSE IF n = "<= 14" THEN <<"addrole", "removerole", "deleterole">>
     ELSE IF n = "<= 15" THEN <<"bannewcomers">>
     ELSE IF n = "<= 18" THEN <<"banraid", "getraid", "wipe", "bannewcomers", "getpressure">>
     ELSE <<"addset", "removeset", "searchset">>]

\* the defaults the step for versions below 10 gives a legacy structure of an older version
\* (the spam limits it sets for version 0 are copied nowhere)
LegacyDefaults(legacy) ==
  [legacy EXCEPT
     !.Command_roles = IF legacy.Version = 0 /\ DOMAIN @.kv = {} THEN MakeMap ELSE @,
     !.Aliases = IF legacy.Version <= 1
                   THEN MapPut(@, "cute", "pick cute") ELSE @,
     !.BoredCommands = IF legacy.Version <= 3 THEN MakeMap ELSE @,
     !.TimezoneLocation = IF legacy.Version <= 5
                            THEN "Etc/GMT" \o (IF legacy.Timezone < 0 THEN "+" ELSE "")
                                 \o FormatInt(-legacy.Timezone)
                          ELSE @]

\* the assignments of the step for versions below 10
FromLegacy(cfg, legacy) ==
  [cfg EXCEPT
     !["Basic.ModRole"] = NewDiscordRole(legacy.AlertRole),
     !["Basic.Aliases"] = legacy.Aliases,
     !["Filter.Filters"] = legacy.Collections,
     !["Basic.FreeChannels"] = ParsedKeys(legacy.FreeChannels, "<#"),
     !["Basic.IgnoreInvalidCommands"] = legacy.IgnoreInvalidCommands,
     !["Basic.Importable"] = legacy.Importable,
     !["Basic.ModChannel"] = NewDiscordChannel(legacy.ModChannel),
     !["Basic.SilenceRole"] = NewDiscordRole(legacy.SilentRole),
     !["Modules.CommandChannels"] = ParsedInner(legacy.Command_channels, "<#"),
     !["Modules.CommandDisabled"] = [nil |-> FALSE, kv |-> [key \in DOMAIN legacy.Command_disabled.kv |-> TRUE]],
     !["Modules.CommandLimits"] = [nil |-> FALSE, kv |-> legacy.Command_limits.kv],
     !["Modules.CommandRoles"] = ParsedInner(legacy.Command_roles, "<@&"),
     !["Modules.CommandMaxDuration"] = legacy.Commandmaxduration,
     !["Modules.CommandPerDuration"] = legacy.Commandperduration,
     !["Modules.Channels"] = ParsedInner(legacy.Module_channels, "<#"),
     !["Modules.Disabled"] = [nil |-> FALSE, kv |-> [key \in DOMAIN legacy.Module_disabled.kv |-> TRUE]],
     !["Spam.AutoSilence"] = legacy.AutoSilence,
     !["Spam.RaidTime"] = legacy.MaxRaidTime,
     !["Spam.MaxRemoveLookback"] = legacy.MaxSpamRemoveLookback,
     !["Spam.RaidSize"] = legacy.RaidSize,
     !["Bucket.MaxItems"] = legacy.MaxBucket,
     !["Bucket.MaxItemLength"] = legacy.MaxBucketLength,
     !["Bucket.MaxFightDamage"] = legacy.MaxFightDamage,
     !["Bucket.MaxFightHP"] = legacy.MaxFightHP,
     !["Markov.DefaultLines"] = legacy.Defaultmarkovlines,
     !["Markov.MaxPMlines"] = legacy.MaxPMlines,
     !["Markov.MaxLines"] = legacy.Maxquotelines,
     !["Markov.UseMemberNames"] = legacy.UseMemberNames,
     !["Users.TimezoneLocation"] = legacy.TimezoneLocation,
     !["Users.WelcomeChannel"] = NewDiscordChannel(legacy.WelcomeChannel),
     !["Users.WelcomeMessage"] = legacy.WelcomeMessage,
     !["Users.SilenceMessage"] = legacy.SilenceMessage,
     !["Bored.Commands"] = legacy.BoredCommands,
     !["Bored.Cooldown"] = legacy.Maxbored,
     !["Information.HideNegativeRules"] = legacy.HideNegativeRules,
     !["Information.Rules"] = legacy.Rules,
     !["Log.Channel"] = NewDiscordChannel(legacy.LogChannel),
     !["Log.Cooldown"] = legacy.Maxerror,
     !["Witty.Cooldown"] = legacy.Maxwit,
     !["Witty.Responses"] = legacy.Witty,
     !["Scheduler.BirthdayRole"] = NewDiscordRole(legacy.BirthdayRole),
     !["Miscellaneous.MaxSearchResults"] = legacy.Maxsearchresults,
     !["Filter.Channels"] =
        KV({"spoiler"}, SetOf({NewDiscordChannel(legacy.SpoilChannels[i]) : i \in DOMAIN legacy.SpoilChannels})),
     !["Status.Cooldown"] = legacy.StatusDelayTime,
     !["Quote.Quotes"] =
        [nil |-> FALSE,
         kv |-> [u \in {NewDiscordUser(k) : k \in DOMAIN legacy.Quotes.kv} |->
                   legacy.Quotes.kv[CHOOSE k \in DOMAIN legacy.Quotes.kv : NewDiscordUser(k) = u]]]]

\* (60 - 10) / d as a float32, for the divisors the steps use
FiftyOver(d) ==
  IF d = 5 THEN FloatOf(FALSE, 1, 1)
  ELSE IF d = 6 THEN FloatOf(FALSE, 8333333, -6)
  ELSE IF d = 24 THEN FloatOf(FALSE, 20833333, -7)
  ELSE IF d = 25 THEN FloatOf(FALSE, 2, 0)
  ELSE IF d = 70 THEN FloatOf(FALSE, 71428573, -8)
  ELSE FloatOf(FALSE, 625, -5)

\* (MaxPressure - BasePressure) / d: the two are 60 and 10, or equal
PressureOver(cfg, d) ==
  IF cfg["Spam.MaxPressure"] = cfg["Spam.BasePressure"] THEN Zero("float32") ELSE FiftyOver(d)

\* the pressures the step for versions up to 12 sets before it reads the legacy limits
BasePressures(cfg) ==
  [cfg EXCEPT
     !["Spam.BasePressure"] = FloatOf(FALSE, 1, 1),
     !["Spam.MaxPressure"] = FloatOf(FALSE, 6, 1),
     !["Spam.ImagePressure"] = FiftyOver(6),
     !["Spam.PingPressure"] = FiftyOver(24),
     !["Spam.LengthPressure"] = FiftyOver(8000),
     !["Spam.RepeatPressure"] = FloatOf(FALSE, 1, 1),
     !["Spam.PressureDecay"] = FloatOf(FALSE, 25, -1)]

\* m[k] read from a map of maps: the nil map when k is missing
Lookup(m, k) == IF k \in DOMAIN m.kv THEN m.kv[k] ELSE NilMap

\* the assignments of the step for versions up to 20 when its legacy decode succeeds
FromV20(cfg, legacy) ==
  LET spoilers == Lookup(legacy.Collections, "spoiler")
      emotes == Lookup(legacy.Collections, "emote")
      hasSpoiler == DOMAIN spoilers.kv # {} \/ legacy.SpoilChannels # <<>>
      hasEmote == DOMAIN emotes.kv # {}
      Entries(pairs) == [nil |-> FALSE, kv |-> [k \in {p[1] : p \in pairs} |->
                                                  (CHOOSE p \in pairs : p[1] = k)[2]]]
      auto == cfg["Spam.AutoSilence"]
  IN [cfg EXCEPT
        !["Basic.ModRole"] = legacy.AlertRole,
        !["Miscellaneous.MaxSearchResults"] = legacy.MaxResults,
        !["Scheduler.BirthdayRole"] = legacy.BirthdayRole,
        !["Filter.Filters"] =
           Entries((IF hasSpoiler THEN {<<"spoiler", [nil |-> FALSE, kv |-> spoilers.kv]>>} ELSE {})
                   \cup (IF hasEmote THEN {<<"emote", [nil |-> FALSE, kv |-> emotes.kv]>>} ELSE {})),
        !["Filter.Channels"] =
           Entries((IF hasSpoiler
                      THEN {<<"spoiler", SetOf({legacy.SpoilChannels[i] : i \in DOMAIN legacy.SpoilChannels})>>}
                    ELSE {})
                   \cup (IF hasEmote THEN {<<"emote", MakeMap>>} ELSE {})),
        !["Filter.Responses"] =
           Entries((IF hasSpoiler THEN {<<"spoiler", "[](/nospoilers) NO SPOILERS! Posting spoilers is a bannable offense. All discussion about new and future content MUST be in #mylittlespoilers.">>} ELSE {})
                   \cup (IF hasEmote THEN {<<"emote", "That emote isn't allowed here! Try to avoid using large or disturbing emotes, as they can be problematic.">>} ELSE {})),
        !["Filter.Templates"] = Entries(IF hasEmote THEN {<<"emote", "\\[\\]\\(\\/r?%%[-) \"]">>} ELSE {}),
        !["Bucket.Items"] = [nil |-> FALSE, kv |-> Lookup(legacy.Collections, "bucket").kv],
        !["Status.Lines"] = [nil |-> FALSE, kv |-> Lookup(legacy.Collections, "status").kv],
        !["Users.TrackUserLeft"] = legacy.TrackUserLeft,
        !["Users.SilenceMessage"] = legacy.SilenceMessage,
        !["Basic.SilenceRole"] = legacy.SilentRole,
        !["Users.NotifyChannel"] = IF auto = -2 THEN cfg["Log.Channel"]
                                   ELSE IF auto # 0 THEN cfg["Basic.ModChannel"] ELSE @,
        !["Spam.AutoSilence"] = IF auto < 0 THEN 0 ELSE auto]

\* if x == "0" { x = "" } for the roles and channels an older version stored as numbers
NoZeroIDs(cfg) ==
  [p \in AllPaths |->
     IF p \in {"Basic.ModRole", "Basic.ModChannel", "Basic.SilenceRole", "Spam.IgnoreRole",
               "Users.WelcomeChannel", "Users.NotifyChannel", "Log.Channel",
               "Scheduler.BirthdayRole"} /\ cfg[p] = "0"
       THEN "" ELSE cfg[p]]

\* the modules that were renamed
Renamed == [k \in {"schedule", "anti-spam", "help/about"} |->
              IF k = "schedule" THEN "scheduler" ELSE IF k = "anti-spam" THEN "spam" ELSE "information"]

\* for each renamed k among keys: Channels[new] = Channels[k]; delete(Channels, k)
RECURSIVE RenameChannels(_, _)
RenameChannels(chs, keys) ==
  IF keys = {} THEN chs
  ELSE LET k == CHOOSE k \in keys : TRUE
       IN RenameChannels(MapDelete(MapPut(chs, Renamed[k], Lookup(chs, k)), k), keys \ {k})

\* the two loops that close the step: over Modules.Channels, then over Modules.Disabled
RenameModules(cfg) ==
  LET first == RenameChannels(cfg["Modules.Channels"],
                              DOMAIN cfg["Modules.Channels"].kv \cap DOMAIN Renamed)
      keys == DOMAIN cfg["Modules.Disabled"].kv \cap DOMAIN Renamed
  IN IF keys # {} /\ cfg["Modules.Channels"].nil THEN Went(cfg, "panic")
     ELSE Went([cfg EXCEPT !["Modules.Channels"] =
                  IF @.nil THEN @ ELSE RenameChannels(first, keys)], "ok")

(***************************************************************************)
(* MigrateSettings as a process: the initial decode, the steps in the      *)
(* order of the source, the closing assignment of the version.             *)
(***************************************************************************)
\* the conditions on guild.Config.Version that guard the steps, in source order
Steps ==
  <<[name |-> "< 10", op |-> "<", n |-> 10],
    [name |-> "== 10", op |-> "==", n |-> 10],
    [name |-> "<= 11", op |-> "<=", n |-> 11],
    [name |-> "<= 12", op |-> "<=", n |-> 12],
    [name |-> "<= 13", op |-> "<=", n |-> 13],
    [name |-> "<= 14", op |-> "<=", n |-> 14],
    [name |-> "<= 15", op |-> "<=", n |-> 15],
    [name |-> "<= 16", op |-> "<=", n |-> 16],
    [name |-> "<= 17", op |-> "<=", n |-> 17],
    [name |-> "<= 18", op |-> "<=", n |-> 18],
    [name |-> "<= 19", op |-> "<=", n |-> 19],
    [name |-> "<= 20", op |-> "<=", n |-> 20]>>

\* the lowest version a step no longer applies to
Below(i) == IF Steps[i].op = "<" THEN Steps[i].n ELSE Steps[i].n + 1

\* every step runs for every version under its bound (faulty variant of Applies)
AppliesBelow(i, version) == version < Below(i)

\* the step's condition holds for this value of guild.Config.Version
Applies(i, version) ==
  IF Steps[i].op = "<" THEN version < Steps[i].n
  ELSE IF Steps[i].op = "==" THEN version = Steps[i].n
  ELSE version <= Steps[i].n

\* where MigrateSettings stands before step i and after the last one
StepPc(i) == IF i > Len(Steps) THEN "finish" ELSE Steps[i].name

\* the version is written, and the configuration saved, also when it is already
\* ConfigVersion (faulty variant of VersionDiffers)
VersionNotAbove(cfg) == cfg["Version"] <= ConfigVersion

\* the version is written only when it is lower (faulty variant of VersionDiffers)
VersionLower(cfg) == cfg["Version"] < ConfigVersion

\* if guild.Config.Version != ConfigVersion
VersionDiffers(cfg) == cfg["Version"] # ConfigVersion

\* guild.Config when MigrateSettings is called: the zero value or DefaultConfig()
StoreBefore(store) == IF store = "zero" THEN ZeroConfig ELSE DefaultConfig

\* MigrateSettings is about to run on one of these blobs
MigrateFrom(blobs) ==
  /\ \E blob \in blobs, store \in {"zero", "default"} :
       /\ mig = [pc |-> "decode", blob |-> blob, store |-> store, persisted |-> -1,
                 steps |-> <<>>, failed |-> {}, result |-> "", savedAfter |-> <<>>, held |-> 0]
       /\ config = StoreBefore(store)
  /\ saves = 0
  /\ lastSet = [done |-> FALSE, called |-> FALSE, args |-> <<>>, path |-> "", out |-> "",
                ok |-> FALSE, msg |-> "", opt |-> "", before |-> config]
  /\ reply = [cmd |-> "", args |-> <<>>, form |-> "", name |-> "", lines |-> <<>>]
  /\ focus = "scalar"
  /\ commands = 0
  /\ calls = {}
  /\ tenant = [Idle EXCEPT !.writer = "migrate"]

MigrateInit == MigrateFrom(Blobs)

\* the error of the initial decode is dropped and the steps follow (faulty variant of
\* InitialDecode)
InitialDecodeGoesOn ==
  /\ mig.pc = "decode"
  /\ config' = DecodeBotConfig(config, mig.blob)
  /\ mig' = [mig EXCEPT !.pc = StepPc(1), !.persisted = config'["Version"]]
  /\ UNCHANGED <<saves, lastSet, reply, focus, commands, calls, tenant>>

\* err := json.Unmarshal(config, &guild.Config); if err != nil { return err }
InitialDecode ==
  /\ mig.pc = "decode"
  /\ config' = DecodeBotConfig(config, mig.blob)
  /\ mig' = IF DecodeFails(mig.blob, "BotConfig")
              THEN [mig EXCEPT !.pc = "done", !.result = "error"]
            ELSE [mig EXCEPT !.pc = StepPc(1), !.persisted = mig.blob.version]
  /\ UNCHANGED <<saves, lastSet, reply, focus, commands, calls, tenant>>

\* a call that changes something outside the configuration (Discord, the database), and
\* whether guild.Bot.GuildsLock is held when it is made
Call(name, args, locked) == [call |-> name, args |-> args, locked |-> locked]

\* step i: its body runs when its condition holds, and the next step follows unless the
\* body made MigrateSettings return or panic; made: the outside calls the body makes
RunStep(i, r, made) ==
  /\ IF Applies(i, config["Version"])
       THEN /\ config' = r.cfg
            /\ mig' = [mig EXCEPT
                         !.steps = Append(@, Steps[i].name),
                         !.failed = IF r.out = "failed" THEN @ \cup {Steps[i].name} ELSE @,
                         !.result = IF r.out \in {"error", "panic"} THEN r.out ELSE @,
                         !.pc = IF r.out \in {"error", "panic"} THEN "done" ELSE StepPc(i + 1)]
            /\ calls' = calls \cup made
     ELSE /\ config' = config
          /\ mig' = [mig EXCEPT !.pc = StepPc(i + 1)]
          /\ calls' = calls
  /\ UNCHANGED <<saves, lastSet, reply, focus, commands, tenant>>

\* if guild.Config.Version < 10
MigrateBelow10 ==
  /\ mig.pc = StepPc(1)
  /\ RunStep(1,
         IF DecodeFails(mig.blob, "legacyBotConfig") THEN Went(config, "error")
         ELSE Restrict(NewCommands["< 10"],
                  Went(FromLegacy(config, LegacyDefaults(legacyBotConfig(mig.blob))), "ok")),
         {})

\* if guild.Config.Version == 10
Migrate10 ==
  /\ mig.pc = StepPc(2)
  /\ RunStep(2, IF DecodeFails(mig.blob, "legacyBotConfigV10") THEN Went(config, "failed")
                ELSE Went([config EXCEPT
                             !["Modules.CommandMaxDuration"] = legacyBotConfigV10(mig.blob).Commandmaxduration,
                             !["Modules.CommandPerDuration"] = legacyBotConfigV10(mig.blob).Commandperduration],
                          "ok"),
             {})

\* if guild.Config.Version <= 11
Migrate11 ==
  /\ mig.pc = StepPc(3)
  /\ RunStep(3, Restrict(NewCommands["<= 11"], Went(config, "ok")), {})

\* if guild.Config.Version <= 12
Migrate12 ==
  /\ mig.pc = StepPc(4)
  /\ RunStep(4,
         IF DecodeFails(mig.blob, "legacyBotConfigV12") THEN Went(BasePressures(config), "failed")
         ELSE Went([BasePressures(config) EXCEPT
                      !["Spam.ImagePressure"] =
                         IF legacyBotConfigV12(mig.blob).MaxImages > 0
                           THEN FiftyOver(legacyBotConfigV12(mig.blob).MaxImages + 1) ELSE Zero("float32"),
                      !["Spam.PingPressure"] =
                         IF legacyBotConfigV12(mig.blob).MaxPings > 0
                           THEN FiftyOver(legacyBotConfigV12(mig.blob).MaxPings + 1) ELSE Zero("float32")],
                   "ok"),
         {})

\* if guild.Config.Version <= 13.  created: the groups for which GuildRoleCreate and
\* GuildRoleEdit succeed (the call is recorded with the id of the new role, "" when it
\* failed); rows: the schedule table holds rows of type 7 for the guild.
\* The step never takes guild.Bot.GuildsLock.
Migrate13 ==
  /\ mig.pc = StepPc(5)
  /\ \E created \in SUBSET DOMAIN legacyBotConfigV13(mig.blob).Groups.kv, rows \in BOOLEAN :
       LET Groups == legacyBotConfigV13(mig.blob).Groups.kv
           ID(k) == "9" \o FormatNat(Len(k))
       IN RunStep(5,
            IF DecodeFails(mig.blob, "legacyBotConfigV13") THEN Went(config, "failed")
            ELSE Went([config EXCEPT !["Users.Roles"] = SetOf({ID(k) : k \in created})], "ok"),
            IF DecodeFails(mig.blob, "legacyBotConfigV13") THEN {}
            ELSE {Call("GuildRoleCreate", <<k, IF k \in created THEN ID(k) ELSE "">>, FALSE) : k \in DOMAIN Groups}
                 \cup UNION {{Call("GuildMemberRoleAdd", <<u, ID(k)>>, FALSE) : u \in DOMAIN Groups[k].kv} :
                             k \in created}
                 \cup (IF rows THEN {Call("UPDATE schedule", <<>>, FALSE)} ELSE {}))

\* if guild.Config.Version <= 14
Migrate14 ==
  /\ mig.pc = StepPc(6)
  /\ RunStep(6, Restrict(NewCommands["<= 14"], Went(config, "ok")), {})

\* if guild.Config.Version <= 15
Migrate15 ==
  /\ mig.pc = StepPc(7)
  /\ RunStep(7, LET r == Restrict(NewCommands["<= 15"], Went(config, "ok"))
                IN Then(r, [r.cfg EXCEPT !["Spam.LockdownDuration"] = 120]),
             {})

\* if guild.Config.Version <= 16
Migrate16 ==
  /\ mig.pc = StepPc(8)
  /\ RunStep(8, Went([config EXCEPT !["Basic.CommandPrefix"] = "!"], "ok"), {})

\* if guild.Config.Version <= 17
Migrate17 ==
  /\ mig.pc = StepPc(9)
  /\ RunStep(9, Went([config EXCEPT !["SetupDone"] = TRUE], "ok"), {})

\* if guild.Config.Version <= 18
Migrate18 ==
  /\ mig.pc = StepPc(10)
  /\ RunStep(10, LET r == Restrict(NewCommands["<= 18"], Went(config, "ok"))
                 IN Then(r, [r.cfg EXCEPT !["Spam.LinePressure"] = PressureOver(r.cfg, 70)]),
             {})

\* if guild.Config.Version <= 19: guild.Bot.GuildsLock.Lock() and what the step does
\* while it holds the lock; the collections left after the four it keeps are imported
\* into the database as tags
Migrate19 ==
  /\ mig.pc = StepPc(11)
  /\ LET Filters == IF DOMAIN config["Filter.Filters"].kv = {} THEN MakeMap ELSE config["Filter.Filters"]
         Coll == legacyBotConfigV19(mig.blob).Collections
         Imported == {k \in DOMAIN Coll.kv \ {"bucket", "emote", "status", "spoiler"} :
                        DOMAIN Coll.kv[k].kv # {}}
     IN IF Applies(11, config["Version"])
          THEN /\ config' = IF DecodeFails(mig.blob, "legacyBotConfigV19")
                               THEN [config EXCEPT !["Filter.Filters"] = Filters]
                             ELSE [config EXCEPT
                                     !["Bucket.Items"] = Lookup(Coll, "bucket"),
                                     !["Status.Lines"] = Lookup(Coll, "status"),
                                     !["Filter.Filters"] =
                                        MapPut(MapPut(Filters, "emote", Lookup(Coll, "emote")),
                                               "spoiler", Lookup(Coll, "spoiler"))]
               /\ mig' = [mig EXCEPT
                            !.steps = Append(@, Steps[11].name),
                            !.failed = IF DecodeFails(mig.blob, "legacyBotConfigV19")
                                         THEN @ \cup {Steps[11].name} ELSE @,
                            !.held = @ + 1,
                            !.pc = "<= 19 locked"]
               /\ calls' = calls \cup
                              (IF DecodeFails(mig.blob, "legacyBotConfigV19") THEN {}
                               ELSE {Call("CreateTag", <<k>>, TRUE) : k \in Imported}
                                    \cup UNION {{Call("AddItem", <<item, k>>, TRUE) :
                                                   item \in DOMAIN Coll.kv[k].kv} : k \in Imported})
        ELSE /\ config' = config
             /\ mig' = [mig EXCEPT !.pc = StepPc(12)]
             /\ calls' = calls
  /\ UNCHANGED <<saves, lastSet, reply, focus, commands, tenant>>

\* the lock is kept when the step's decode failed (faulty variant of Migrate19Unlock)
Migrate19UnlockOnSuccess ==
  /\ mig.pc = "<= 19 locked"
  /\ mig' = [mig EXCEPT !.held = IF Steps[11].name \in mig.failed THEN @ ELSE @ - 1,
                        !.pc = "<= 19 unlocked"]
  /\ UNCHANGED <<config, saves, lastSet, reply, focus, commands, calls, tenant>>

\* guild.Bot.GuildsLock.Unlock(), after the if and its else
Migrate19Unlock ==
  /\ mig.pc = "<= 19 locked"
  /\ mig' = [mig EXCEPT !.held = @ - 1, !.pc = "<= 19 unlocked"]
  /\ UNCHANGED <<config, saves, lastSet, reply, focus, commands, calls, tenant>>

\* the three restrictCommand calls that end the step
Migrate19Restrict ==
  /\ mig.pc = "<= 19 unlocked"
  /\ \E r \in {Restrict(NewCommands["<= 19"], Went(config, "ok"))} :
       /\ config' = r.cfg
       /\ mig' = [mig EXCEPT !.result = IF r.out = "panic" THEN "panic" ELSE @,
                             !.pc = IF r.out = "panic" THEN "done" ELSE StepPc(12)]
  /\ UNCHANGED <<saves, lastSet, reply, focus, commands, calls, tenant>>

\* if guild.Config.Version <= 20
Migrate20 ==
  /\ mig.pc = StepPc(12)
  /\ RunStep(12,
         LET Ended(r, out) == IF r.out = "panic" THEN r ELSE Went(r.cfg, out)
         IN IF DecodeFails(mig.blob, "legacyBotConfigV20")
              THEN Ended(RenameModules(NoZeroIDs(config)), "failed")
            ELSE Ended(RenameModules(NoZeroIDs(FromV20(config, legacyBotConfigV20(mig.blob)))), "ok"),
         {})

\* if guild.Config.Version != ConfigVersion { guild.Config.Version = ConfigVersion;
\* guild.SaveConfig() }; return nil
FinishMigration ==
  /\ mig.pc = "finish"
  /\ IF VersionDiffers(config)
       THEN /\ config' = [config EXCEPT !["Version"] = ConfigVersion]
            /\ saves' = saves + 1
            /\ mig' = [mig EXCEPT !.pc = "done", !.result = "nil", !.savedAfter = mig.steps]
     ELSE /\ mig' = [mig EXCEPT !.pc = "done", !.result = "nil"]
          /\ UNCHANGED <<config, saves>>
  /\ UNCHANGED <<lastSet, reply, focus, commands, calls, tenant>>

MigrateNext ==
  \/ InitialDecode
  \/ MigrateBelow10
  \/ Migrate10
  \/ Migrate11
  \/ Migrate12
  \/ Migrate13
  \/ Migrate14
  \/ Migrate15
  \/ Migrate16
  \/ Migrate17
  \/ Migrate18
  \/ Migrate19
  \/ Migrate19Unlock
  \/ Migrate19Restrict
  \/ Migrate20
  \/ FinishMigration

MigrateSpec == MigrateInit /\ [][MigrateNext]_vars

(***************************************************************************)
(* Claims about MigrateSettings                                            *)
(***************************************************************************)
\* MigrateSettings has returned nil
Migrated == mig.pc = "done" /\ mig.result = "nil"

\* the steps whose condition holds for the persisted version, in source order
Applicable(version) == SelectSeq([i \in DOMAIN Steps |-> i], LAMBDA i : Applies(i, version))

StepNames(is) == [k \in DOMAIN is |-> Steps[is[k]].name]

\* C17: whenever MigrateSettings returns without error the configuration's Version is
\* ConfigVersion; and when the persisted version was lower, SaveConfig has been invoked
\* exactly once, after every step that applies had run (nothing runs after it).
C17_VersionCurrentSavedOnce ==
  /\ saves <= 1
  /\ saves = 1 => mig.pc = "done"
  /\ Migrated =>
       /\ config["Version"] = ConfigVersion
       /\ mig.persisted < ConfigVersion =>
            /\ saves = 1
            /\ mig.savedAfter = mig.steps
            /\ mig.steps = StepNames(Applicable(mig.persisted))

\* C17 witness: a blob of version 12 has been migrated: its steps ran, the version was set
\* and the configuration saved once.
C17_Witness ==
  /\ Migrated
  /\ mig.persisted = 12
  /\ Len(mig.steps) = 9
  /\ saves = 1
  /\ config["Version"] = ConfigVersion

\* C18: the Version after MigrateSettings is never lower than the persisted one, also for
\* a blob whose persisted Version is above ConfigVersion.
C18_VersionNeverDecreases == Migrated => config["Version"] >= mig.persisted

\* the names of the steps among is, in source order
StepsAmong(is) == StepNames(SelectSeq([i \in DOMAIN Steps |-> i], LAMBDA i : i \in is))

IsPrefix(s, t) == Len(s) <= Len(t) /\ s = SubSeq(t, 1, Len(s))

\* C19 as stated: for a persisted version v below ConfigVersion the steps applied are
\* exactly those whose bound is above v, the step for version 10 among them for every
\* v <= 10, each once and in ascending order.
C19_EveryStepAboveVersion ==
  (Migrated /\ mig.persisted < ConfigVersion) =>
     mig.steps = StepsAmong({i \in DOMAIN Steps : mig.persisted < Below(i)})

\* C19 amended: the steps applied are, each once and in source order, the step "< 10" for
\* v < 10, the step "== 10" for v = 10 only, and each step "<= n" for v <= n; at every
\* moment of the run the steps applied so far are a prefix of these.
C19_StepsByTheirConditions ==
  LET Expected == StepsAmong({i \in DOMAIN Steps : IF Steps[i].name = "== 10" THEN mig.persisted = 10
                                                    ELSE mig.persisted < Below(i)})
  IN /\ mig.pc # "decode" => IsPrefix(mig.steps, Expected)
     /\ (Migrated /\ mig.persisted < ConfigVersion) => mig.steps = Expected

\* C19 witness: a blob of version 5 has been migrated: the step "< 10" and the steps
\* "<= 11" to "<= 20" ran, the step "== 10" did not.
C19_Witness ==
  /\ Migrated
  /\ mig.persisted = 5
  /\ mig.steps = <<"< 10", "<= 11", "<= 12", "<= 13", "<= 14", "<= 15", "<= 16", "<= 17",
                   "<= 18", "<= 19", "<= 20">>

\* C20: once the initial decode has succeeded, a legacy decode that fails in a step, the
\* step "< 10" included, does not stop MigrateSettings: it returns nil, every later step
\* that applies has run and the Version is ConfigVersion.
C20_LegacyDecodeFailureNotFatal ==
  (mig.pc = "done" /\ ~DecodeFails(mig.blob, "BotConfig")) =>
     /\ mig.result = "nil"
     /\ config["Version"] = ConfigVersion
     /\ mig.steps = StepNames(Applicable(mig.persisted))

\* C21: when the initial decode of the blob into guild.Config fails, MigrateSettings
\* returns the error: no step has run, no outside call was made, nothing was saved, and the
\* configuration is what the decode left (the Version is not set to ConfigVersion).
C21_InitialDecodeFailureFatal ==
  (mig.pc # "decode" /\ DecodeFails(mig.blob, "BotConfig")) =>
     /\ mig.pc = "done"
     /\ mig.result = "error"
     /\ mig.steps = <<>>
     /\ calls = {}
     /\ saves = 0
     /\ config = DecodeBotConfig(StoreBefore(mig.store), mig.blob)

\* C21 witness: the blob of version 12 of a guild whose configuration was zero failed
\* its initial decode and MigrateSettings returned the error, the Version left at 12.
C21_Witness ==
  /\ mig.pc = "done"
  /\ mig.result = "error"
  /\ mig.blob.version = 12
  /\ mig.blob.bad = {"BotConfig"}
  /\ mig.store = "zero"
  /\ config["Version"] = 12
  /\ saves = 0

\* the commands of the restriction lists of the steps that apply to a persisted version
RestrictedFor(version) ==
  UNION {{NewCommands[Steps[i].name][k] : k \in DOMAIN NewCommands[Steps[i].name]} :
           i \in {i \in DOMAIN Steps : Steps[i].name \in DOMAIN NewCommands /\ Applies(i, version)}}

\* the commands the blob holds roles for
StoredCommandRoles(blob) ==
  IF blob.version < 10 THEN DOMAIN legacyBotConfig(blob).Command_roles.kv
  ELSE DOMAIN CategoryStored(blob)["Modules.CommandRoles"].kv

\* C22: after MigrateSettings of a blob whose persisted version is at or below the gate
\* of a restriction step, every command of that step's list is a key of
\* Modules.CommandRoles, and a command the blob held no roles for is mapped to exactly the
\* final Basic.ModRole.
C22_NewCommandsRestricted ==
  Migrated =>
     \A cmd \in RestrictedFor(mig.persisted) :
        /\ cmd \in DOMAIN config["Modules.CommandRoles"].kv
        /\ cmd \notin StoredCommandRoles(mig.blob) =>
              config["Modules.CommandRoles"].kv[cmd] = SetOf({config["Basic.ModRole"]})

\* C23: after MigrateSettings of a blob of the flat layout (version 9) that holds groups,
\* for every group the creation of its role was tried, and unless it failed the role is
\* in Users.Roles and every member of the group was added to it.
C23_RolesFromLegacyGroups ==
  (Migrated /\ mig.persisted = 9) =>
     \A k \in DOMAIN legacyBotConfig(mig.blob).Groups.kv :
        \E e \in calls :
           /\ e.call = "GuildRoleCreate"
           /\ e.args[1] = k
           /\ e.args[2] # "" =>
                 /\ e.args[2] \in DOMAIN config["Users.Roles"].kv
                 /\ \A u \in DOMAIN legacyBotConfig(mig.blob).Groups.kv[k].kv :
                       \E a \in calls : a.call = "GuildMemberRoleAdd" /\ a.args = <<u, e.args[2]>>

\* C24: every call MigrateSettings makes outside the configuration (role creation, role
\* membership, schedule rows, tags and items) is made while guild.Bot.GuildsLock is held.
C24_OutsideCallsUnderGuildsLock == \A e \in calls : e.locked

\* C26: a !setconfig whose SetConfig returns success = false performs no save.
C26_SaveOnlyOnSuccess ==
  [][(reply'.cmd = "setconfig" /\ commands' # commands /\ ~lastSet'.ok) => saves' = saves]_vars

\* C28: MigrateSettings of a blob whose persisted version is ConfigVersion applies no
\* step, makes no outside call, saves nothing and leaves every option as the initial
\* decode left it: at no moment of the run, and so for the saved result of a completed
\* migration too.
C28_CurrentVersionNoOp ==
  (mig.pc # "decode" /\ mig.persisted = ConfigVersion) =>
     /\ mig.steps = <<>>
     /\ calls = {}
     /\ saves = 0
     /\ config = DecodeBotConfig(StoreBefore(mig.store), mig.blob)
     /\ mig.pc = "done" => mig.result = "nil"

\* C28 witness: MigrateSettings has returned nil for a blob of version ConfigVersion that
\* names its maps with entries: no step ran, nothing was saved, and the configuration
\* holds the blob's values.
C28_Witness ==
  /\ Migrated
  /\ mig.persisted = ConfigVersion
  /\ mig.blob.maps = "set"
  /\ mig.blob.alertrole = 101
  /\ mig.steps = <<>>
  /\ saves = 0
  /\ config["Basic.ModRole"] = "101"
  /\ config["Modules.Channels"] = KV({"schedule", "help/about"}, SetOf({"201"}))

\* the channels the blob holds for each module
StoredModuleChannels(blob) ==
  IF blob.version < 10 THEN ParsedInner(legacyBotConfig(blob).Module_channels, "<#")
  ELSE CategoryStored(blob)["Modules.Channels"]

\* C30: after MigrateSettings of a blob of version 20 or lower, the channels the blob
\* holds under a renamed module (schedule, anti-spam, help/about) are in Modules.Channels
\* under the new name (scheduler, spam, information), and the old name is no key any
\* more, whether or not the old name is also a key of Modules.Disabled.
C30_ModuleChannelsRenamed ==
  (Migrated /\ mig.persisted <= 20) =>
     \A k \in DOMAIN StoredModuleChannels(mig.blob).kv \cap DOMAIN Renamed :
        /\ k \notin DOMAIN config["Modules.Channels"].kv
        /\ Renamed[k] \in DOMAIN config["Modules.Channels"].kv
        /\ config["Modules.Channels"].kv[Renamed[k]] = StoredModuleChannels(mig.blob).kv[k]

(***************************************************************************)
(* setupCommand: !setup [OVERRIDE] <Moderator Role> <Mod Channel> [<Log     *)
(* Channel>].  Message texts are given without the Markdown code fence.    *)
(***************************************************************************)
\* the keys of info.commands whose Info().Sensitive is set
SensitiveCommands == {"wipe"}

\* Commands() of the guild's modules, as keys of info.commands
ModuleCommands == [m \in ModuleNames |-> IF m = "Bucket" THEN {"getaudit"} ELSE {"wipe"}]

\* setupCommand.DisableModule: the commands of the module of that name are disabled
\* (CheckMapNilBool makes CommandDisabled when it is nil), then the module itself
DisableModule(cfg, module) ==
  LET cmds == UNION {ModuleCommands[v] : v \in {v \in ModuleNames : ToLower(v) = module}}
  IN [cfg EXCEPT
        !["Modules.CommandDisabled"] =
           IF cmds = {} THEN @ ELSE [nil |-> FALSE, kv |-> [k \in DOMAIN @.kv \cup cmds |-> TRUE]],
        !["Modules.Disabled"] = MapPut(@, module, TRUE)]

\* the moderator role is added to the roles a sensitive command already has (faulty
\* variant of RestrictSensitive)
RestrictSensitiveKeeps(cfg) ==
  [cfg EXCEPT
     !["Modules.CommandRoles"] =
        [nil |-> FALSE,
         kv |-> [k \in DOMAIN @.kv \cup SensitiveCommands |->
                   IF k \notin SensitiveCommands THEN @.kv[k]
                   ELSE IF k \in DOMAIN @.kv THEN MapPut(@.kv[k], cfg["Basic.ModRole"], TRUE)
                   ELSE SetOf({cfg["Basic.ModRole"]})]]]

\* for k, v := range info.commands { if v.Info().Sensitive { CommandRoles[k] = make(...);
\* CommandRoles[k][ModRole] = true } }, on a map that is not nil
RestrictSensitive(cfg) ==
  [cfg EXCEPT
     !["Modules.CommandRoles"] =
        [nil |-> FALSE,
         kv |-> [k \in DOMAIN @.kv \cup SensitiveCommands |->
                   IF k \in SensitiveCommands THEN SetOf({cfg["Basic.ModRole"]}) ELSE @.kv[k]]]]

\* what Discord answers during a !setup: the guild is in the state object, the author is
\* an administrator, GuildRoleCreate succeeds, GuildRoleEdit succeeds
SetupEnvs == [found : BOOLEAN, admin : BOOLEAN, created : BOOLEAN, edited : BOOLEAN]

\* the outcome of !setup args on configuration cfg: the configuration it leaves, the
\* reply, how it ended ("ok", "failed", or "panic" for an assignment to an entry of a nil
\* map), whether SaveConfig ran, and the calls made to Discord.  The new role has id 103.
\* Of the reply to a successful !setup only the first lines are kept; the advice that
\* follows them is a fixed text.
SetupProcess(cfg, args, env) ==
  LET End(c, msg, out, made) ==
        [cfg |-> c, msg |-> msg, out |-> out, saved |-> out = "ok", calls |-> made]
      TooFew == "You must provide at least the Moderator Role and Mod Channel arguments to this function."
      override == cfg["SetupDone"]
      rest == IF override /\ args # <<>> THEN Tail(args) ELSE args
      base == IF override THEN DefaultConfig ELSE cfg
      Arg(i) == IF i <= Len(rest) THEN rest[i] ELSE ""
      role == ParseRole(Arg(1))
      channel == ParseChannel(Arg(2))
      log == ParseChannel(Arg(3))
      c1 == [base EXCEPT !["Basic.ModRole"] = role.val]
      c2 == [c1 EXCEPT !["Basic.ModChannel"] = channel.val]
      c3 == IF Len(rest) > 2 THEN [c2 EXCEPT !["Log.Channel"] = log.val] ELSE c2
      c4 == [c3 EXCEPT !["Basic.SilenceRole"] = ParseID("103", "<@&").val]
      c5 == [c4 EXCEPT !["Basic.Aliases"] = MapPut(MapPut(@, "calc", "roll"), "calculate", "roll")]
      c6 == [RestrictSensitive(c5) EXCEPT
               !["Modules.CommandDisabled"] = MakeMap,
               !["Modules.Disabled"] = MakeMap]
      c7 == DisableModule(DisableModule(DisableModule(DisableModule(DisableModule(DisableModule(
              c6, "bucket"), "bored"), "markov"), "witty"), "poll"), "misc")
      Name(id, dir, sign) == IF \E d \in dir : d.ID = id
                               THEN sign \o (CHOOSE d \in dir : d.ID = id).Name ELSE id
      Create == Call("GuildRoleCreate", <<"103">>, FALSE)
      Edit == Call("GuildRoleEdit", <<"103", "Silence">>, FALSE)
  IN IF ~env.found THEN End(cfg, "Can't find guild in state object?!?", "failed", {})
     ELSE IF ~env.admin THEN End(cfg, "Only administrators can use this command!", "failed", {})
     ELSE IF Len(args) < 2 THEN End(cfg, TooFew, "failed", {})
     ELSE IF override /\ ToLower(args[1]) # "override"
       THEN End(cfg, "WARNING: This server has already been configured. If you run !setup again, it will reset ALL CONFIGURATION DATA to defaults! If you wish to proceed, use !setup OVERRIDE <your arguments>", "failed", {})
     ELSE IF Len(rest) < 2 THEN End(base, TooFew, "failed", {})
     ELSE IF Len(rest) > 3
       THEN End(base, "This function only accepts 3 arguments, but you put in " \o FormatNat(Len(rest))
                      \o "! Are you actually using @Role for the mod role and #channel for the channels? Alternatively, put your moderator role in \"quotes\".",
                "failed", {})
     ELSE IF role.err \/ role.val = "" THEN End(c1, rest[1] \o " is not a valid role!", "failed", {})
     ELSE IF channel.err \/ channel.val = ""
       THEN End(c2, rest[2] \o " is not a valid channel!", "failed", {})
     ELSE IF Len(rest) > 2 /\ (log.err \/ log.val = "")
       THEN End(c3, rest[3] \o " is not a valid channel!", "failed", {})
     ELSE IF ~env.created THEN End(c3, "Failed to create the silent role! error", "failed", {})
     ELSE IF ~env.edited
       THEN End(c3, "Failed to set up the silent role! error", "failed",
                {Create, Call("GuildRoleDelete", <<"103">>, FALSE)})
     ELSE IF c4["Basic.Aliases"].nil THEN End(c4, "", "panic", {Create, Edit})
     ELSE IF c5["Modules.CommandRoles"].nil /\ SensitiveCommands # {}
       THEN End(c5, "", "panic", {Create, Edit})
     ELSE End([c7 EXCEPT !["SetupDone"] = TRUE],
              "Server configured!\nModerator Role: " \o Name(c7["Basic.ModRole"], GuildRoles, "@")
                \o "\nMod Channel: " \o Name(c7["Basic.ModChannel"], GuildChannels, "#")
                \o "\nLog Channel: " \o Name(c7["Log.Channel"], GuildChannels, "#"),
              "ok", {Create, Edit, Call("setupSilenceRole", <<"103">>, FALSE)})

\* the arguments of the !setup commands users send
SetupRequests ==
  {<<>>, <<"Mods">>, <<"Mods", "general">>, <<"<@&101>", "<#201>", "bot">>,
   <<"Silence", "202">>, <<"nobody", "general">>, <<"Mods", "nowhere">>,
   <<"Mods", "general", "nowhere">>, <<"Mods", "general", "bot", "bot">>,
   <<"OVERRIDE", "Mods", "general">>, <<"override", "Silence", "bot", "general">>,
   <<"override", "Mods">>, <<"Override", "nobody", "general">>}

\* the configuration of the guild when a !setup may arrive: a new guild's defaults, a
\* loaded configuration that was set up before, or one whose options were set with
\* !setconfig while !setup has not run yet
SetupInit ==
  /\ config \in InitConfigs \cup {[c EXCEPT !["SetupDone"] = FALSE] : c \in InitConfigs}
  /\ saves = 0
  /\ lastSet = [done |-> FALSE, called |-> FALSE, args |-> <<>>, path |-> "", out |-> "",
                ok |-> FALSE, msg |-> "", opt |-> "", before |-> config]
  /\ reply = [cmd |-> "", args |-> <<>>, form |-> "", name |-> "", lines |-> <<>>]
  /\ focus = "scalar"
  /\ commands = 0
  /\ mig = Loaded
  /\ calls = {}
  /\ tenant = Idle

\* !setup args...
SetupCmd ==
  /\ commands < MaxCommands
  /\ \E args \in SetupRequests, env \in SetupEnvs :
       \E r \in {SetupProcess(config, args, env)} :
         /\ config' = r.cfg
         /\ saves' = IF r.saved THEN saves + 1 ELSE saves
         /\ lastSet' = [lastSet EXCEPT !.before = config]
         /\ reply' = [cmd |-> "setup", args |-> args, form |-> r.out, name |-> "", lines |-> <<r.msg>>]
         /\ calls' = calls \cup r.calls
         /\ commands' = commands + 1
         /\ UNCHANGED <<focus, mig, tenant>>

SetupNext == SetupCmd

SetupSpec == SetupInit /\ [][SetupNext]_vars

\* the role a !setup was given: its first argument, the second after OVERRIDE
GivenRole(args, override) == ParseRole(IF override THEN args[2] ELSE args[1]).val

\* C29: a !setup that succeeds leaves every sensitive command a key of
\* Modules.CommandRoles mapped to exactly the moderator role it was given, SetupDone
\* true, and has saved the configuration.
C29_SetupRestrictsSensitive ==
  [][(reply'.cmd = "setup" /\ commands' # commands /\ reply'.form = "ok") =>
       /\ \A k \in SensitiveCommands :
             /\ k \in DOMAIN config'["Modules.CommandRoles"].kv
             /\ config'["Modules.CommandRoles"].kv[k]
                  = SetOf({GivenRole(reply'.args, config["SetupDone"])})
       /\ config'["Basic.ModRole"] = GivenRole(reply'.args, config["SetupDone"])
       /\ config'["SetupDone"]
       /\ saves' = saves + 1]_vars

\* C29 witness: !setup Silence 202 has succeeded on a configuration in which wipe was
\* restricted to the role 101: wipe is now restricted to the role 102 alone, the command
\* that is not sensitive has no entry, SetupDone is set and the configuration was saved.
C29_Witness ==
  /\ reply.cmd = "setup"
  /\ reply.form = "ok"
  /\ reply.args = <<"Silence", "202">>
  /\ lastSet.before["Modules.CommandRoles"] = KV({"wipe"}, SetOf({"101"}))
  /\ config["Modules.CommandRoles"] = KV({"wipe"}, SetOf({"102"}))
  /\ config["SetupDone"]
  /\ saves = 1

(***************************************************************************)
(* The life of a guild's configuration: it is loaded (MigrateSettings on   *)
(* the stored blob, or DefaultConfig for a new guild, then FillConfig) and *)
(* then changed by !setconfig commands.                                    *)
(***************************************************************************)
\* the blobs a guild is loaded from: flat, with one object per category, and current;
\* naming none of the maps, naming them empty, or with entries
LoadBlobs == {b \in Blobs : b.version \in {9, 13, ConfigVersion} /\ b.bad = {} /\ b.alertrole = 101}

\* a stored blob is about to be migrated, or the guild is new and has DefaultConfig()
LoadInit ==
  \/ MigrateFrom(LoadBlobs)
  \/ /\ config = DefaultConfig
     /\ mig = [Loaded EXCEPT !.pc = "done", !.result = "nil"]
     /\ saves = 0
     /\ lastSet = [done |-> FALSE, called |-> FALSE, args |-> <<>>, path |-> "", out |-> "",
                   ok |-> FALSE, msg |-> "", opt |-> "", before |-> config]
     /\ reply = [cmd |-> "", args |-> <<>>, form |-> "", name |-> "", lines |-> <<>>]
     /\ focus = "scalar"
     /\ commands = 0
     /\ calls = {}
     /\ tenant = [Idle EXCEPT !.writer = "migrate"]

\* guild.Config.FillConfig() once the configuration is there; the commands that follow
\* address lists, maps or maps of lists
LoadFill ==
  /\ mig.pc = "done"
  /\ mig.result = "nil"
  /\ config' = FillConfig(config)
  /\ mig' = [mig EXCEPT !.pc = "loaded"]
  /\ focus' \in Focuses \ {"scalar"}
  /\ tenant' = [tenant EXCEPT !.writer = "", !.committed = {Snapshot(FillConfig(config))}]
  /\ UNCHANGED <<saves, lastSet, reply, commands, calls>>

LoadNext ==
  \/ InitialDecode
  \/ MigrateBelow10
  \/ Migrate10
  \/ Migrate11
  \/ Migrate12
  \/ Migrate13
  \/ Migrate14
  \/ Migrate15
  \/ Migrate16
  \/ Migrate17
  \/ Migrate18
  \/ Migrate19
  \/ Migrate19Unlock
  \/ Migrate19Restrict
  \/ Migrate20
  \/ FinishMigration
  \/ LoadFill
  \/ SetConfigCmd

LoadSpec == LoadInit /\ [][LoadNext]_vars

\* the options that are maps, lists or maps of lists
CollectionOptions == {p \in OptionPaths : IsMapType(TypeOf(p)) \/ IsSliceType(TypeOf(p))}

\* C27: once the configuration is loaded (DefaultConfig or a MigrateSettings that
\* returned nil, then FillConfig), no option that is a map, a list or a map of lists is
\* nil, also after !setconfig commands that set, clear or delete; and FillConfig leaves
\* every collection that is not empty as it is.
C27_CollectionsNeverNil ==
  /\ mig.pc = "loaded" =>
        \A p \in CollectionOptions : ~config[p].nil
  /\ \A p \in CollectionOptions :
        LenOf(TypeOf(p), config[p]) > 0 => FillConfig(config)[p] = config[p]

\* C27 witness: a flat blob of version 9 that names none of its maps was migrated and
\* the configuration filled; a !setconfig has then cleared a list option, which is now
\* an empty map and not nil.
C27_Witness ==
  /\ mig.pc = "loaded"
  /\ mig.persisted = 9
  /\ mig.blob.maps = "absent"
  /\ focus = "list"
  /\ lastSet.ok
  /\ lastSet.opt \in CollectionOptions
  /\ lastSet.before[lastSet.opt] # MakeMap
  /\ config[lastSet.opt] = MakeMap

(***************************************************************************)
(* Commands of one guild beside one another.  The guild is loaded under    *)
(* its lock (MigrateSettings, then FillConfig); a !setconfig on a list     *)
(* then runs step by step, as setConfigList does: it empties the option    *)
(* and puts the values in one at a time, while !getconfig commands arrive. *)
(***************************************************************************)
\* the stored blob the guild is loaded from
ConcurrentBlobs == {b \in Blobs : b.version = 19 /\ b.bad = {} /\ b.alertrole = 101 /\ b.maps = "set"}

ConcurrentInit == MigrateFrom(ConcurrentBlobs) /\ mig.store = "default"

\* the !setconfig commands: two values, a second value that names no channel, no value
ConcurrentSets ==
  {<<"Bored.Commands", "!a", "!b">>, <<"Basic.FreeChannels", "general", "nowhere">>,
   <<"freechannels", "201", "general">>, <<"Bored.Commands", "">>}

\* a !setconfig arrives and takes the lock alone; Process has checked its arguments
\* and SetConfig has found the option, a list
SetBegin ==
  /\ tenant.set.pc = "idle"
  /\ CanWrite(tenant)
  /\ commands < MaxCommands
  /\ \E args \in ConcurrentSets :
       /\ ~FixRequest(args[1]).err
       /\ OptionOf(FixRequest(args[1]).path) \in ConcurrentOptions
       /\ tenant' = [tenant EXCEPT
                       !.writer = "set",
                       !.set = [pc |-> "clear", args |-> args, p |-> OptionOf(FixRequest(args[1]).path),
                                k |-> 0, ok |-> FALSE, msg |-> ""],
                       !.committed = {Snapshot(config)}]
  /\ UNCHANGED <<config, saves, lastSet, reply, focus, commands, mig, calls>>

\* f.Set(reflect.MakeMap(f.Type()))
SetClear ==
  /\ tenant.set.pc = "clear"
  /\ config' = [config EXCEPT ![tenant.set.p] = MakeMap]
  /\ tenant' = [tenant EXCEPT !.set.pc = "fill", !.set.ok = TRUE]
  /\ UNCHANGED <<saves, lastSet, reply, focus, commands, mig, calls>>

\* one turn of the loop over values: setConfigValue, then f.SetMapIndex or the return
SetFill ==
  /\ tenant.set.pc = "fill"
  /\ Len(tenant.set.args[2]) > 0
  /\ tenant.set.k < Len(tenant.set.args) - 1
  /\ \E v \in {setConfigValue(TypeKey(TypeOf(tenant.set.p)), Zero(TypeKey(TypeOf(tenant.set.p))),
                              tenant.set.args[tenant.set.k + 2])} :
       IF v.err
         THEN /\ tenant' = [tenant EXCEPT !.set.pc = "end", !.set.ok = FALSE]
              /\ config' = config
         ELSE /\ tenant' = [tenant EXCEPT !.set.k = @ + 1]
              /\ config' = [config EXCEPT ![tenant.set.p] = MapPut(@, v.val, TRUE)]
  /\ UNCHANGED <<saves, lastSet, reply, focus, commands, mig, calls>>

\* setConfigList and SetConfig return, Process saves, replies and the lock is released
SetEnd ==
  /\ \/ tenant.set.pc = "end"
     \/ /\ tenant.set.pc = "fill"
        /\ Len(tenant.set.args[2]) = 0 \/ tenant.set.k = Len(tenant.set.args) - 1
  /\ \E before \in {[q \in AllPaths |-> IF q \in ConcurrentOptions THEN s[q] ELSE config[q]] :
                      s \in tenant.committed} :
       \E r \in {SetProcess(before, tenant.set.args)} :
         /\ lastSet' = [done |-> TRUE, called |-> TRUE, args |-> tenant.set.args, path |-> r.path,
                        out |-> r.out, ok |-> tenant.set.ok, msg |-> r.msg,
                        opt |-> tenant.set.p, before |-> before]
         /\ reply' = [cmd |-> "setconfig", args |-> tenant.set.args, form |-> "text",
                      name |-> r.path, lines |-> <<r.msg>>]
  /\ saves' = saves + 1
  /\ commands' = commands + 1
  /\ tenant' = [tenant EXCEPT !.writer = "", !.set.pc = "idle",
                              !.committed = @ \cup {Snapshot(config)}]
  /\ UNCHANGED <<config, focus, mig, calls>>

\* a !getconfig for one of the options arrives; overlapped: a !setconfig is under way
GetArrive(g) ==
  /\ tenant.get[g].pc = "idle"
  /\ \E p \in ConcurrentOptions :
       tenant' = [tenant EXCEPT !.get[g] = [pc |-> "waiting", p |-> p, value |-> MakeMap,
                                            overlapped |-> tenant.set.pc # "idle"]]
  /\ UNCHANGED <<config, saves, lastSet, reply, focus, commands, mig, calls>>

\* it takes the lock together with the other readers
GetBegin(g) ==
  /\ tenant.get[g].pc = "waiting"
  /\ CanRead(tenant)
  /\ tenant' = [tenant EXCEPT !.readers = @ \cup {g}, !.get[g].pc = "reading"]
  /\ UNCHANGED <<config, saves, lastSet, reply, focus, commands, mig, calls>>

\* getConfigCommand.Process: GetConfig reads the option and the reply is made of it
GetRead(g) ==
  /\ tenant.get[g].pc = "reading"
  /\ \E r \in GetProcess(config, <<tenant.get[g].p>>) :
       reply' = [cmd |-> "getconfig", args |-> <<tenant.get[g].p>>, form |-> r.form,
                 name |-> r.name, lines |-> r.lines]
  /\ tenant' = [tenant EXCEPT !.get[g].pc = "seen", !.get[g].value = config[tenant.get[g].p]]
  /\ UNCHANGED <<config, saves, lastSet, focus, commands, mig, calls>>

\* it releases the lock
GetEnd(g) ==
  /\ tenant.get[g].pc = "seen"
  /\ tenant' = [tenant EXCEPT !.readers = @ \ {g}, !.get[g].pc = "idle"]
  /\ UNCHANGED <<config, saves, lastSet, reply, focus, commands, mig, calls>>

GetStep == \E g \in Gets : GetArrive(g) \/ GetBegin(g) \/ GetRead(g) \/ GetEnd(g)

ConcurrentNext ==
  \/ InitialDecode
  \/ MigrateBelow10
  \/ Migrate10
  \/ Migrate11
  \/ Migrate12
  \/ Migrate13
  \/ Migrate14
  \/ Migrate15
  \/ Migrate16
  \/ Migrate17
  \/ Migrate18
  \/ Migrate19
  \/ Migrate19Unlock
  \/ Migrate19Restrict
  \/ Migrate20
  \/ FinishMigration
  \/ LoadFill
  \/ SetBegin
  \/ SetClear
  \/ SetFill
  \/ SetEnd
  \/ GetStep

ConcurrentSpec == ConcurrentInit /\ [][ConcurrentNext]_vars

C31_TopFieldsNotSettable ==
  [][(reply'.cmd = "setconfig" /\ commands' # commands)
      => /\ \A f \in TopFields : config'[f] = config[f]
         /\ (/\ Len(lastSet'.args) >= 1
             /\ FirstSegment(lastSet'.args) \in {ToLower(f) : f \in TopFields})
            => (~lastSet'.ok /\ config' = config)]_vars

\* C31 witness: !setconfig SetupDone false was turned down on the stored configuration,
\* where SetupDone is true
C31_Witness ==
  /\ lastSet.called
  /\ lastSet.args = <<"SetupDone", "false">>
  /\ ~lastSet.ok
  /\ lastSet.before["SetupDone"]
  /\ config["SetupDone"]

(***************************************************************************)
(* C32  A Set changes no option but the one it addresses.                  *)
(***************************************************************************)
\* C32: a !setconfig changes at most the option its Category.Option path addresses:
\* every other option and field is after the call what it was before, whether the call
\* returned success or not; a call that reaches no option changes nothing.
C32_OnlyAddressedOptionChanges ==
  [][(reply'.cmd = "setconfig" /\ commands' # commands)
      => /\ \A q \in AllPaths \ {lastSet'.opt} : config'[q] = config[q]
         /\ lastSet'.before = config]_vars

\* C32 witness: a !setconfig that returned success=false has changed the option it
\* addressed, and nothing else
C32_Witness ==
  /\ lastSet.called
  /\ lastSet.opt # ""
  /\ ~lastSet.ok
  /\ config[lastSet.opt] # lastSet.before[lastSet.opt]
  /\ OthersUnchanged(lastSet.opt)

(***************************************************************************)
(* C33  What the step for versions below 10 installs is kept.              *)
(***************************************************************************)
\* C33: after MigrateSettings of a flat blob (persisted version below 10) whose decodes
\* all succeeded, Basic.ModRole, Basic.SilenceRole, Scheduler.BirthdayRole,
\* Users.SilenceMessage and Miscellaneous.MaxSearchResults hold what the step for
\* versions below 10 installed from the blob's alertrole, silentrole, birthdayrole,
\* silencemessage and maxsearchresults (an id of 0 standing for none): no later step
\* has put the zero value of a structure the blob does not hold in their place.
C33_LegacyValuesKept ==
  (Migrated /\ mig.persisted < 10 /\ mig.failed = {}) =>
     LET installed == NoZeroIDs(FromLegacy(config, legacyBotConfig(mig.blob)))
     IN \A p \in {"Basic.ModRole", "Basic.SilenceRole", "Scheduler.BirthdayRole",
                  "Users.SilenceMessage", "Miscellaneous.MaxSearchResults"} :
          config[p] = installed[p]

(***************************************************************************)
(* C34, C35  !setup that fails, and !setup OVERRIDE                        *)
(***************************************************************************)
\* C34: a !setup that returns a failure message (the author is no administrator, too
\* few or too many arguments, the guild is configured and OVERRIDE is missing, a role or
\* channel that is not valid, the silence role could not be created or edited) leaves
\* the configuration exactly as it was; !setup OVERRIDE with a role that is not valid
\* does not reset it to the defaults.
C34_FailedSetupChangesNothing ==
  [][(reply'.cmd = "setup" /\ commands' # commands /\ reply'.form = "failed")
      => config' = config]_vars

\* C35: !setup OVERRIDE with a valid role and valid channels on a guild that is
\* configured, when it does not return a failure message, writes into no map that is
\* nil: it ends as a successful !setup does, with SetupDone = true.
C35_OverrideWritesNoNilMap ==
  [][(/\ reply'.cmd = "setup"
      /\ commands' # commands
      /\ config["SetupDone"]
      /\ Len(reply'.args) \in 3..4
      /\ ToLower(reply'.args[1]) = "override"
      /\ reply'.form # "failed")
      => (reply'.form = "ok" /\ config'["SetupDone"])]_vars

(***************************************************************************)
(* C36  restrictCommand only adds.                                         *)
(***************************************************************************)
\* the step of MigrateSettings whose restrictCommand calls have just run, "" when none has
StepRun ==
  IF mig.pc = "<= 19 unlocked" /\ mig'.pc # mig.pc THEN "<= 19"
  ELSE IF Len(mig'.steps) = Len(mig.steps) + 1 /\ mig'.steps[Len(mig'.steps)] # "<= 19"
    THEN mig'.steps[Len(mig'.steps)]
  ELSE ""

\* C36: in the steps that change Modules.CommandRoles through restrictCommand alone,
\* every entry the map had is still there unchanged, nothing changes when Basic.ModRole
\* is empty, and an entry that was added belongs to one of the step's commands and is
\* exactly {Basic.ModRole}.
C36_RestrictCommandOnlyAdds ==
  [][(StepRun \in {"<= 11", "<= 14", "<= 15", "<= 18", "<= 19"}) =>
      (/\ \A k \in DOMAIN config["Modules.CommandRoles"].kv :
             /\ k \in DOMAIN config'["Modules.CommandRoles"].kv
             /\ config'["Modules.CommandRoles"].kv[k] = config["Modules.CommandRoles"].kv[k]
       /\ config["Basic.ModRole"] = ""
             => config'["Modules.CommandRoles"] = config["Modules.CommandRoles"]
       /\ \A k \in DOMAIN config'["Modules.CommandRoles"].kv \ DOMAIN config["Modules.CommandRoles"].kv :
             /\ k \in Range(NewCommands[StepRun])
             /\ config'["Modules.CommandRoles"].kv[k] = SetOf({config["Basic.ModRole"]}))]_vars

\* C36 witness: the step for Version <= 18 has run on a configuration in which wipe was
\* restricted to a role other than Basic.ModRole: wipe has kept its roles, and banraid,
\* which had no entry, is restricted to Basic.ModRole.
C36_Witness ==
  /\ mig.pc = StepPc(11)
  /\ Len(mig.steps) > 0
  /\ mig.steps[Len(mig.steps)] = "<= 18"
  /\ config["Basic.ModRole"] # ""
  /\ "wipe" \in DOMAIN config["Modules.CommandRoles"].kv
  /\ config["Modules.CommandRoles"].kv["wipe"] = SetOf({"101"})
  /\ config["Modules.CommandRoles"].kv["wipe"] # SetOf({config["Basic.ModRole"]})
  /\ "banraid" \in DOMAIN config["Modules.CommandRoles"].kv
  /\ config["Modules.CommandRoles"].kv["banraid"] = SetOf({config["Basic.ModRole"]})

(***************************************************************************)
(* C37  A Set that deletes a key reports success=false.                    *)
(***************************************************************************)
\* C37: a !setconfig on a Map option with a key that parses and an empty value, and one
\* on a MapList option with a key that parses and no values, leave the option without
\* the entry for that key, its other entries as they were, and return success=false:
\* the configuration can have changed although Set reports no success.
C37_DeleteReportsNoSuccess ==
  (lastSet.called /\ SetOpt # "") =>
     LET t == TypeOf(SetOpt)
         k == StoredKey(t, SetValue)
     IN (\/ t \in SetKeyValueTypes /\ Len(lastSet.args) >= 3 /\ lastSet.args[3] = "" /\ ~k.err
         \/ t \in SetMapListTypes /\ Len(lastSet.args) = 2 /\ SetValue # "" /\ ~k.err)
        => /\ ~lastSet.ok
           /\ k.val \notin DOMAIN config[SetOpt].kv
           /\ SameElsewhere(config[SetOpt], lastSet.before[SetOpt], k.val)

\* C37 witness: !setconfig Filter.Filters emote, with no values, has removed the entry
\* emote, which was there, and success=false was returned
C37_Witness ==
  /\ lastSet.called
  /\ lastSet.args = <<"Filter.Filters", "emote">>
  /\ "emote" \in DOMAIN lastSet.before["Filter.Filters"].kv
  /\ "emote" \notin DOMAIN config["Filter.Filters"].kv
  /\ config # lastSet.before
  /\ ~lastSet.ok

(***************************************************************************)
(* C38  Keys are stored lower-cased and looked up as they are typed.       *)
(***************************************************************************)
\* the latest !setconfig succeeded on a Map or MapList option with a key text that has an
\* upper-case letter, and the !getconfig after it asked for the option under that text
UpperCaseKeyAsked ==
  /\ lastSet.called
  /\ lastSet.ok
  /\ SetOpt # ""
  /\ TypeOf(SetOpt) \in SetKeyValueTypes \cup SetMapListTypes
  /\ ToLower(SetValue) # SetValue
  /\ reply.cmd = "getconfig"
  /\ Len(reply.args) = 2
  /\ OptionOf(FixRequest(reply.args[1]).path) = SetOpt
  /\ reply.args[2] = SetValue

C39_GuildsLockReleased ==
  /\ mig.held \in {0, 1}
  /\ mig.held = 1 <=> mig.pc = "<= 19 locked"
  /\ mig.pc \in {"<= 19 unlocked", "done"} => mig.held = 0

\* C39 witness: the step for Version <= 19 has failed to decode the blob, the lock has
\* been released and the restrictCommand calls are about to run.
C39_Witness ==
  /\ mig.pc = "<= 19 unlocked"
  /\ "<= 19" \in mig.failed
  /\ mig.held = 0

====
